---- MODULE Spec2Model ----
(***************************************************************************)
(* Model of the frax orchestration engine (package llm):                  *)
(*   Agent.Invoke / CallTool / executeToolWithRetry   pkg/llm/agent.go    *)
(*   BaseLLMWithStructuredOutput.Invoke            pkg/llm/structured.go  *)
(*   LLMRequest, LLMResponse          pkg/llm/request.go, response.go     *)
(* The model transport (LLM.Invoke) and Tool.Run are external: they are    *)
(* nondeterministic choices over the replies a stub can give.              *)
(***************************************************************************)
EXTENDS Integers, Sequences, FiniteSets, TLC

\* ------------------------------------------------------------- bounds
\* Largest value given to WithMaxRetries.
MaxRetries == 1
\* Total number of tool calls the main model may emit in one run of Agent.Invoke.
MaxToolCalls == 2
\* Largest value given to WithMaxRetries when one dispatch is run on its own.
MaxRetriesDispatch == 2
\* The longest chain of wrappers.
MaxWrappers == 2
\* The longest list of tools a toolbox is built from.
MaxTools == 3
\* The most turns of a run followed at the level of Go objects.
MaxTurns == 2

\* ------------------------------------------------- program constants
DefaultMaxRetries == 3
DefaultRetryDelay == 100
DefaultRetryBackoff == 2

\* ------------------------------------------------------ JSON payloads
\* json.RawMessage values that occur as tool-call arguments.  The "_sp"
\* documents carry insignificant whitespace, as the literals of
\* agent_retry_test.go do ({"param": "correct"}); NotJSON is no JSON text.
WrongSp == "wrong_sp"
Wrong == "wrong"
RightSp == "right_sp"
Right == "right"
NotJSON == "notjson"

\* encoding/json validity of a RawMessage.
ValidJSON(a) == a # NotJSON

\* json.Marshal of a json.RawMessage: the encoder compacts the bytes that
\* RawMessage.MarshalJSON returns, removing insignificant whitespace.
Compact(a) == CASE a = WrongSp -> Wrong
                [] a = RightSp -> Right
                [] OTHER -> a

\* ------------------------------------------------------------- errors
\* An error value; its text (err.Error()) is identified with the record.
Err(kind, n, cause) == [kind |-> kind, n |-> n, cause |-> cause]
NoErr == Err("nil", 0, "")
\* context.Canceled, what ctx.Err() returns once ctx.Done() is closed.
Canceled == Err("context canceled", 0, "")
\* The error a failing transport stub returns (errors.New("mock LLM failure")).
ModelFailure == Err("mock LLM failure", 0, "")

\* ------------------------------------------------------ message model
ToolCallRec(id, name, args) == [ID |-> id, Name |-> name, Args |-> args]
NoToolCall == ToolCallRec(0, "", "")
\* A json.RawMessage held by a ToolResultMessage: a tool's output, or the
\* bytes of an error text (NewToolResultErrorMessage).
RawJSON(j) == [json |-> j, errText |-> NoErr]
RawErrText(e) == [json |-> "", errText |-> e]
NoRaw == RawJSON("")

Msg(type, content, tc, res) ==
    [type |-> type, Content |-> content, ToolCall |-> tc, Result |-> res]
NilMessage == Msg("nil", "", NoToolCall, NoRaw)
NewUserMessage(content) == Msg("UserMessage", content, NoToolCall, NoRaw)
AssistantMessage(content) == Msg("AssistantMessage", content, NoToolCall, NoRaw)
NewToolCallMessage(tc) == Msg("ToolCallMessage", "", tc, NoRaw)
NewToolResultMessage(tc, result) == Msg("ToolResultMessage", "", tc, RawJSON(result))
NewToolResultErrorMessage(tc, error) == Msg("ToolResultMessage", "", tc, RawErrText(error))
SystemMessage(content) == Msg("SystemMessage", content, NoToolCall, NoRaw)
\* A ToolErrorMessage keeps its error text in the field Error.
NewToolErrorMessage(tc, error) == Msg("ToolErrorMessage", "", tc, RawErrText(error))

\* Message.Kind()
Kind(m) == CASE m.type = "ToolCallMessage" -> "tool_call"
             [] m.type = "ToolResultMessage" -> "tool_result"
             [] m.type = "ToolErrorMessage" -> "tool_result"
             [] OTHER -> "text"

\* Message.Role()
Role(m) == CASE m.type = "UserMessage" -> "user"
             [] m.type = "SystemMessage" -> "system"
             [] m.type = "ToolResultMessage" -> "tool"
             [] OTHER -> "assistant"

\* ------------------------------------------------------------- tools
\* A Tool value.  type "mockTool" is the stub of agent_retry_test.go;
\* type "formatter" is a BaseLLMWithStructuredOutput used as a tool.
ToolRec(type, name, schema, shouldFail, correctArgs) ==
    [type |-> type, Name |-> name, Schema |-> schema,
     shouldFail |-> shouldFail, correctArgs |-> correctArgs]
NilTool == ToolRec("nil", "", "", FALSE, "")

\* A run result: the output, or the error.
RunOk(out) == [err |-> NoErr, out |-> out]
RunFail(e) == [err |-> e, out |-> ""]

\* mockTool.Run
MockToolRun(t, args) ==
    IF t.shouldFail /\ args # t.correctArgs
    THEN RunFail(Err("invalid arguments", 0, ""))
    ELSE RunOk("success")

\* BaseLLMWithStructuredOutput.Run: ValidateInput accepts anything; echo.
FormatterRun(t, args) == RunOk(args)

\* A GenericTool whose runner accepts one input only.
GenericTool(name, correctArgs) == ToolRec("GenericTool", name, "schema_" \o name, TRUE, correctArgs)

\* GenericTool.Run: the arguments are unmarshalled, which fails on bytes that
\* are no JSON and ignores insignificant whitespace; the runner is applied
\* to the input; the output is marshalled.
GenericToolRun(t, args) ==
    IF ~ValidJSON(args) THEN RunFail(Err("failed to unmarshal input", 0, ""))
    ELSE IF t.shouldFail /\ Compact(args) # t.correctArgs
         THEN RunFail(Err("tool execution failed", 0, ""))
         ELSE RunOk("success")

\* Tool.Run, by dynamic type.
ToolRun(t, args) == IF t.type = "formatter" THEN FormatterRun(t, args)
                    ELSE IF t.type = "GenericTool" THEN GenericToolRun(t, args)
                    ELSE MockToolRun(t, args)

\* ----------------------------------------------------------- requests
AutoToolSelection == [Type |-> "auto", ToolName |-> ""]
ForceTool(toolName) == [Type |-> "forced", ToolName |-> toolName]

\* NewLLMRequest(history) before its options are applied.
NewLLMRequest(history) ==
    [System |-> "", History |-> history, Tools |-> <<>>,
     ToolUsage |-> AutoToolSelection, MaxCompletionTokens |-> 0, Temperature |-> 0]

\* LLMRequest.Clone before its options are applied: a field-by-field copy.
Clone(r) ==
    [System |-> r.System, History |-> r.History, Tools |-> r.Tools,
     ToolUsage |-> r.ToolUsage, MaxCompletionTokens |-> r.MaxCompletionTokens,
     Temperature |-> r.Temperature]

\* The request options, applied to a request under construction.
WithTools(r, tools) == [r EXCEPT !.Tools = @ \o tools]
WithToolUsage(r, toolUsage) == [r EXCEPT !.ToolUsage = toolUsage]
WithSystem(r, system) == [r EXCEPT !.System = system]
WithMaxCompletionTokens(r, n) == [r EXCEPT !.MaxCompletionTokens = n]
WithTemperature(r, t) == [r EXCEPT !.Temperature = t]

\* ---------------------------------------------------------- responses
\* A reply of LLM.Invoke: (*LLMResponse, error).
Reply(msgs) == [err |-> NoErr, isNil |-> FALSE, Messages |-> msgs]
ReplyErr(e) == [err |-> e, isNil |-> TRUE, Messages |-> <<>>]

RECURSIVE ToolCallsNewestFirst(_)
\* Mutant of ToolCalls: the calls are collected newest first.
ToolCallsNewestFirst(msgs) ==
    IF msgs = <<>> THEN <<>>
    ELSE ToolCallsNewestFirst(Tail(msgs))
         \o (IF Kind(Head(msgs)) = "tool_call" THEN <<Head(msgs).ToolCall>> ELSE <<>>)

RECURSIVE ToolCalls(_)
\* LLMResponse.ToolCalls over the message list of a response.
ToolCalls(msgs) ==
    IF msgs = <<>> THEN <<>>
    ELSE (IF Kind(Head(msgs)) = "tool_call" THEN <<Head(msgs).ToolCall>> ELSE <<>>)
         \o ToolCalls(Tail(msgs))

\* LLMResponse.AddToolCall
AddToolCall(msgs, functionCall) == Append(msgs, NewToolCallMessage(functionCall))

\* Mutant of AddMessage: the message is put in front.
AddMessageFront(msgs, m) == <<m>> \o msgs

\* LLMResponse.AddMessage
AddMessage(msgs, m) == Append(msgs, m)

\* ------------------------------------------------------------- agent
\* A time.Duration multiplied by a float64 factor num/den and converted back:
\* time.Duration(float64(delay) * backoff) truncates toward zero.
Backoff(num, den) == [num |-> num, den |-> den]
ScaleDelay(delay, backoff) == (delay * backoff.num) \div backoff.den

\* NewAgent before its options are applied.
NewAgent(tools) ==
    [tools |-> tools, maxRetries |-> DefaultMaxRetries,
     retryDelay |-> DefaultRetryDelay,
     retryBackoff |-> Backoff(DefaultRetryBackoff, 1)]
\* Mutant of WithMaxRetries: the number is taken as retries after the
\* first retry.
WithMaxRetriesOneMore(a, maxRetries) == [a EXCEPT !.maxRetries = maxRetries + 1]

WithMaxRetries(a, maxRetries) == [a EXCEPT !.maxRetries = maxRetries]
WithRetryDelay(a, delay) == [a EXCEPT !.retryDelay = delay]
WithRetryBackoff(a, backoff) == [a EXCEPT !.retryBackoff = backoff]

\* Mutant of FindToolIdx: an unknown name falls back to the first tool.
FindToolIdxOrFirst(tools, name) ==
    IF \E i \in 1..Len(tools) : tools[i].Name = name
    THEN CHOOSE i \in 1..Len(tools) : tools[i].Name = name
    ELSE IF Len(tools) > 0 THEN 1 ELSE 0

\* Agent.findTool: the first tool of the list with the name, or none.
FindToolIdx(tools, name) ==
    IF \E i \in 1..Len(tools) : tools[i].Name = name
    THEN CHOOSE i \in 1..Len(tools) :
            /\ tools[i].Name = name
            /\ \A j \in 1..(i - 1) : tools[j].Name # name
    ELSE 0
ToolNotFound(name) == Err("tool not found", 0, name)

\* The error executeToolWithRetry returns after its loop:
\* "tool call failed after %d retries: %w" with maxRetries+1 and lastErr.
RetryExhausted(maxRetries, lastErr) ==
    Err("tool call failed after retries", maxRetries + 1, lastErr.kind)

\* Agent.executeToolAttempt: (Message, error) of one run of the tool.
ExecuteToolAttempt(tc, tool) ==
    LET r == ToolRun(tool, tc.Args)
    IN  IF r.err # NoErr
        THEN [msg |-> NilMessage, err |-> r.err]
        ELSE [msg |-> NewToolResultMessage(tc, r.out), err |-> NoErr]

\* Mutant of UpdateToolCallArgs: the arguments are not replaced.
UpdateToolCallArgsKeep(tc, newArgs) == tc

\* Mutant of UpdateToolCallArgs: the ID of the call is not copied.
UpdateToolCallArgsNoID(tc, newArgs) == ToolCallRec(0, tc.Name, newArgs)

\* Agent.updateToolCallArgs
UpdateToolCallArgs(tc, newArgs) == ToolCallRec(tc.ID, tc.Name, newArgs)

\* prettyJSON: json.Indent of the document, or the bytes as they are when
\* they are no JSON.
PrettyJSON(a) == IF ValidJSON(a) THEN Compact(a) \o "_indented" ELSE a

\* ----------------------------------------- structured-output wrapper
\* NewBaseLLMWithStructuredOutput(inputSchema, llm) seen as a Tool.
FormatterTool(inputSchema) == ToolRec("formatter", "formatter", inputSchema, FALSE, "")

\* Mutant of ForcedRequest: the caller's request is cloned and extended.
ForcedRequestCloned(f, request) ==
    WithToolUsage(WithTools(Clone(request), <<f>>), ForceTool(f.Name))

\* The request BaseLLMWithStructuredOutput.Invoke sends to its underlying LLM.
ForcedRequest(f, request) ==
    WithToolUsage(WithTools(NewLLMRequest(request.History), <<f>>), ForceTool(f.Name))

\* Mutant of WrapperInvoke: a reply without a tool call is passed on.
WrapperInvokeLenient(f, reply) ==
    IF reply.err # NoErr
    THEN ReplyErr(Err("underlying LLM invocation failed", 0, reply.err.kind))
    ELSE LET calls == ToolCalls(reply.Messages)
         IN  IF Len(calls) > 0
             THEN Reply(<<NewUserMessage(Compact(calls[1].Args))>>)
             ELSE Reply(reply.Messages)

\* BaseLLMWithStructuredOutput.Invoke, given the underlying LLM's reply.
WrapperInvoke(f, reply) ==
    IF reply.err # NoErr
    THEN ReplyErr(Err("underlying LLM invocation failed", 0, reply.err.kind))
    ELSE LET calls == ToolCalls(reply.Messages)
         IN  IF Len(calls) > 0
             THEN LET r == ToolRun(f, calls[1].Args)
                  IN  IF ~ValidJSON(r.out)
                      THEN ReplyErr(Err("failed to marshal result", 0, ""))
                      ELSE Reply(<<NewUserMessage(Compact(r.out))>>)
             ELSE ReplyErr(Err("no tool call found in response", 0, ""))

\* Mutant of CorrectionPrompt: the failed arguments are left out.
CorrectionPromptNoArgs(tc, originalErr) ==
    NewUserMessage("correct:" \o tc.Name \o ":" \o originalErr.kind)

\* The correction prompt of Agent.correctToolCall: the prompt format filled
\* with the tool name, the error text and the pretty-printed arguments.
CorrectionPrompt(tc, originalErr) ==
    NewUserMessage("correct:" \o tc.Name \o ":" \o originalErr.kind
                   \o ":" \o PrettyJSON(tc.Args))
CorrectionRequest(tc, originalErr) == NewLLMRequest(<<CorrectionPrompt(tc, originalErr)>>)

\* Agent.correctToolCall, given the reply of the wrapper: (args, error).
CorrectToolCall(wreply) ==
    IF wreply.err # NoErr
    THEN [args |-> "", err |-> Err("failed to get corrected parameters", 0, wreply.err.kind)]
    ELSE IF Len(wreply.Messages) > 0 /\ wreply.Messages[1].type = "UserMessage"
         THEN [args |-> wreply.Messages[1].Content, err |-> NoErr]
         ELSE [args |-> "", err |-> Err("LLM did not provide corrected parameters", 0, "")]

\* Mutant of HandleToolFailure: a failed correction blanks the arguments.
HandleToolFailureBlank(tc, wreply) ==
    LET c == CorrectToolCall(wreply)
    IN  UpdateToolCallArgs(tc, c.args)

\* Agent.handleToolFailure: the tool call the next attempt uses.
HandleToolFailure(tc, wreply) ==
    LET c == CorrectToolCall(wreply)
    IN  IF c.err # NoErr THEN tc ELSE UpdateToolCallArgs(tc, c.args)

\* -------------------------------------------------------------- state
VARIABLES
    agent,            \* the Agent: tools, maxRetries, retryDelay, retryBackoff
    llm,              \* the LLM stub under the agent: the replies it can give
    cancelled,        \* ctx.Done() is closed
    callerRequest,    \* the request the caller passed to Agent.Invoke
    request,          \* Invoke: the request of the current recursion level
    response,         \* Invoke: response.Messages of the current level
    toolCalls,        \* Invoke: toolCalls of the current level
    idx,              \* Invoke: position of the range loop over toolCalls
    pc,               \* where the run stands
    result,           \* what Agent.Invoke returned to the caller
    targetTool,       \* CallTool: the tool found
    currentToolCall,  \* executeToolWithRetry: currentToolCall
    attempt,          \* executeToolWithRetry: attempt
    delay,            \* executeToolWithRetry: delay
    lastErr,          \* executeToolWithRetry: lastErr
    sel,              \* the select of the backoff wait: blocked, or the case taken
    ctMsg,            \* what CallTool returned: the message
    ctErr,            \* what CallTool returned: the error
    sent,             \* history: every request that reached the LLM stub
    replies,          \* history: the stub's reply to each request of sent
    emitted,          \* history: every message of every turn, in emission order
    used,             \* history: tool calls the main model emitted so far
    dispatchNo,       \* history: number of CallTool invocations so far
    execs,            \* history: arguments of each Tool.Run of this dispatch
    corrs,            \* history: correction round-trips of this dispatch
    waits,            \* history: delays of the completed waits of this dispatch
    toolRuns,         \* history: number of Tool.Run calls of the whole run
    dlog,             \* history: the finished dispatches of the run
    cancelAt,         \* history: the counts when the cancellation fired in a wait
    wrappers,         \* the chain of wrappers invoked, the outermost first
    wrequests,        \* wrappers: the request each level of the chain was given
    wlevel,           \* wrappers: the level of the chain that is executing
    wreply,           \* wrappers: what the level below returned
    args,             \* a function run on its own: the arguments it is given
    ret,              \* a function run on its own: what it returned
    mem,              \* the objects and the backing arrays of slices in memory
    parked            \* a second run of the same agent, while it does not run

vars == <<agent, llm, cancelled, callerRequest, request, response, toolCalls, idx,
          pc, result, targetTool, currentToolCall, attempt, delay, lastErr, sel,
          ctMsg, ctErr, sent, replies, emitted, used, dispatchNo, execs, corrs,
          waits, toolRuns, dlog, cancelAt, wrappers, wrequests, wlevel, wreply,
          args, ret, mem, parked>>

invokeVars == <<callerRequest, request, response, toolCalls, idx, result, emitted, used, dlog>>
retryVars == <<targetTool, currentToolCall, attempt, delay, lastErr>>
dispatchLog == <<execs, corrs, waits, toolRuns>>
wrapperVars == <<wrappers, wrequests, wlevel, wreply>>
callVars == <<args, ret, mem>>

\* ------------------------------------------------- reading the history
\* The positions of sent that hold main-loop requests (policy Auto); the
\* others are the forced requests of correction round-trips.
MainIdx == SelectSeq([i \in 1..Len(sent) |-> i], LAMBDA i : sent[i].ToolUsage.Type = "auto")
\* The number of turns started: main-loop invocations of the transport.
Turn == Len(MainIdx)

\* ------------------------------------------------------- the stubs
\* The mock tool of agent_retry_test.go in the forms the tests build it.
AlwaysFailTool(name) == ToolRec("mockTool", name, "schema_" \o name, TRUE, "")
StrictTool(name, correctArgs) == ToolRec("mockTool", name, "schema_" \o name, TRUE, correctArgs)
OkTool(name) == ToolRec("mockTool", name, "schema_" \o name, FALSE, "")

\* Replies an LLM stub can give to a correction (forced) request: a failure,
\* a text with the arguments (the mockLLM of agent_retry_test.go), no message,
\* one call of the forced tool, two calls.
FormatterCall(a) == NewToolCallMessage(ToolCallRec(0, "formatter", a))
OracleAny ==
    {ReplyErr(ModelFailure), Reply(<<AssistantMessage(RightSp)>>)}
    \cup {Reply(<<FormatterCall(a)>>) : a \in {RightSp, Right, WrongSp, NotJSON}}
    \cup {Reply(<<FormatterCall(Right), FormatterCall(WrongSp)>>)}
OracleShort == {ReplyErr(ModelFailure), Reply(<<FormatterCall(RightSp)>>)}

\* Replies an LLM stub can give to a main-loop request when the main model has
\* emitted `n` tool calls so far: a failure, or an optional text followed by
\* tool calls with fresh ids.
CallKinds == {<<"test_tool", WrongSp>>, <<"ghost", WrongSp>>}
CallsOf(n, ks) == [i \in 1..Len(ks) |-> NewToolCallMessage(ToolCallRec(n + i, ks[i][1], ks[i][2]))]
MainReplies(n) ==
    {ReplyErr(ModelFailure)}
    \cup {Reply(pre \o CallsOf(n, ks)) :
            pre \in {<<>>, <<AssistantMessage("text")>>},
            ks \in UNION {[1..k -> CallKinds] : k \in 0..(MaxToolCalls - n)}}

\* --------------------------------------------------------------- Init
NoResult == [returned |-> FALSE, isNil |-> TRUE, Messages |-> <<>>, err |-> NoErr]
NoCancelAt == [set |-> FALSE, dispatch |-> 0, execs |-> 0, corrs |-> 0, waits |-> 0,
               sent |-> 0, toolRuns |-> 0]

Question == <<NewUserMessage("question")>>
\* The requests a caller passes: a bare one, and one carrying every field.
CallerRequests ==
    {NewLLMRequest(Question),
     WithTemperature(WithMaxCompletionTokens(WithSystem(WithToolUsage(WithTools(
        NewLLMRequest(Question), <<OkTool("extra")>>), ForceTool("extra")),
        "system"), 1000), 7)}

\* No wrapper is invoked by a caller: the agent builds its own.
NoWrapperRun ==
    /\ wrappers = <<>>
    /\ wrequests = <<>>
    /\ wlevel = 0
    /\ wreply = ReplyErr(NoErr)

\* No function is run on its own, and memory is not looked at.
NoArgs == [none |-> TRUE]
NoMem == [objs |-> <<>>, arrs |-> <<>>]
NoCall ==
    /\ args = NoArgs
    /\ ret = NoArgs
    /\ mem = NoMem

\* The agent has one run.
NoParked == [none |-> TRUE]

InitCommon ==
    /\ parked = NoParked
    /\ cancelled = FALSE
    /\ result = NoResult
    /\ targetTool = NilTool
    /\ currentToolCall = NoToolCall
    /\ attempt = 0
    /\ delay = 0
    /\ lastErr = NoErr
    /\ sel = "none"
    /\ ctMsg = NilMessage
    /\ ctErr = NoErr
    /\ sent = <<>>
    /\ replies = <<>>
    /\ dispatchNo = 0
    /\ execs = <<>>
    /\ corrs = <<>>
    /\ waits = <<>>
    /\ toolRuns = 0
    /\ dlog = <<>>
    /\ cancelAt = NoCancelAt

\* A caller is about to run Agent.Invoke(ctx, callerRequest).
InitInvoke ==
    /\ InitCommon
    /\ \E n \in 0..MaxRetries, t \in {StrictTool("test_tool", Right), OkTool("test_tool")} :
          agent = WithMaxRetries(NewAgent(<<t>>), n)
    /\ llm = [corrections |-> OracleShort, isNil |-> FALSE]
    /\ NoWrapperRun
    /\ NoCall
    /\ callerRequest \in CallerRequests
    /\ request = callerRequest
    /\ response = <<>>
    /\ toolCalls = <<>>
    /\ idx = 0
    /\ emitted = <<>>
    /\ used = 0
    /\ pc = "AwaitingModel"

\* A caller is about to run Agent.CallTool(ctx, toolCalls[1]) on its own, as
\* the tests of agent_retry_test.go do.
InitCallTool ==
    /\ InitCommon
    /\ \E n \in (-1)..MaxRetriesDispatch,
          t \in {AlwaysFailTool("test_tool"), StrictTool("test_tool", RightSp),
                 StrictTool("test_tool", Right), OkTool("test_tool")},
          d \in {<<0, Backoff(2, 1)>>, <<100, Backoff(2, 1)>>, <<1, Backoff(3, 2)>>} :
          agent = WithRetryBackoff(WithRetryDelay(WithMaxRetries(NewAgent(<<t>>), n), d[1]), d[2])
    /\ llm = [corrections |-> OracleAny, isNil |-> FALSE]
    /\ NoWrapperRun
    /\ NoCall
    /\ callerRequest = NewLLMRequest(<<>>)
    /\ request = callerRequest
    /\ \E k \in CallKinds \cup {<<"test_tool", RightSp>>} :
          response = CallsOf(0, <<k>>)
    /\ toolCalls = ToolCalls(response)
    /\ idx = 1
    /\ emitted = response
    /\ used = 1
    /\ pc = "Dispatching"

\* ------------------------------------------------------ Agent.Invoke
\* The request Agent.Invoke sends: request.Clone(WithTools(a.tools...),
\* WithToolUsage(AutoToolSelection())).
AgentRequest(a, r) == WithToolUsage(WithTools(Clone(r), a.tools), AutoToolSelection)

\* Mutants of HasToolCalls: the loop is entered on every reply; never.
HasToolCallsAlways(tcs) == Len(tcs) >= 0
HasToolCallsNever(tcs) == Len(tcs) < 0

\* Mutant of HasToolCalls: a single tool call does not start the loop.
HasToolCallsSeveral(tcs) == Len(tcs) > 1

\* len(toolCalls) > 0
HasToolCalls(tcs) == Len(tcs) > 0

\* Mutant of NextRequest: the history of the turn before is left out.
NextRequestFresh(r, msgs) == NewLLMRequest(msgs)

\* Mutant of NextRequest: the correction prompts of the last dispatch go
\* into the history too.
NextRequestWithCorrections(r, msgs) ==
    NewLLMRequest(r.History \o msgs \o [k \in 1..Len(corrs) |-> corrs[k].req.History[1]])

\* The request of the recursive call:
\* NewLLMRequest(append(request.History, response.Messages...)).
NextRequest(r, msgs) == NewLLMRequest(r.History \o msgs)

\* What Invoke returns.
Returned(isNil, msgs, err) == [returned |-> TRUE, isNil |-> isNil, Messages |-> msgs, err |-> err]

\* Mutant of ResultMessage: the error of a failed dispatch is dropped.
ResultMessageNoError(toolCall, message, err) == message

\* The message Invoke adds for a finished CallTool(toolCall): (message, err).
ResultMessage(toolCall, message, err) ==
    IF err # NoErr THEN NewToolResultErrorMessage(toolCall, err) ELSE message

\* Mutant of ModelFails: the failed transport call is tried again.
ModelFailsRetried ==
    /\ pc = "AwaitingModel"
    /\ sent' = Append(sent, AgentRequest(agent, request))
    /\ replies' = Append(replies, ReplyErr(ModelFailure))
    /\ UNCHANGED <<parked, callVars, wrapperVars, agent, llm, cancelled, callerRequest, request, response, toolCalls,
                   idx, pc, result, emitted, used, dlog, retryVars, sel, ctMsg, ctErr,
                   dispatchNo, dispatchLog, cancelAt>>

\* Invoke, lines 66-74: the transport fails; Invoke returns (nil, err).
ModelFails ==
    /\ pc = "AwaitingModel"
    /\ LET reply == ReplyErr(ModelFailure)
       IN  /\ sent' = Append(sent, AgentRequest(agent, request))
           /\ replies' = Append(replies, reply)
           /\ result' = Returned(TRUE, <<>>, reply.err)
           /\ pc' = "Failed"
    /\ UNCHANGED <<parked, callVars, wrapperVars, agent, llm, cancelled, callerRequest, request, response, toolCalls,
                   idx, emitted, used, dlog, retryVars, sel, ctMsg, ctErr,
                   dispatchNo, dispatchLog, cancelAt>>

\* Invoke, lines 66-77 and 90: the transport replies; with no tool call in
\* the reply Invoke returns it, otherwise the range loop starts.
ModelResponds ==
    /\ pc = "AwaitingModel"
    /\ \E reply \in MainReplies(used) :
          /\ reply.err = NoErr
          /\ sent' = Append(sent, AgentRequest(agent, request))
          /\ replies' = Append(replies, reply)
          /\ response' = reply.Messages
          /\ toolCalls' = ToolCalls(reply.Messages)
          /\ emitted' = emitted \o reply.Messages
          /\ used' = used + Len(ToolCalls(reply.Messages))
          /\ IF HasToolCalls(ToolCalls(reply.Messages))
             THEN /\ pc' = "Dispatching"
                  /\ idx' = 1
                  /\ result' = result
             ELSE /\ pc' = "Done"
                  /\ idx' = idx
                  /\ result' = Returned(FALSE, reply.Messages, NoErr)
    /\ UNCHANGED <<parked, callVars, wrapperVars, agent, llm, cancelled, callerRequest, request, dlog, retryVars, sel,
                   ctMsg, ctErr, dispatchNo, dispatchLog, cancelAt>>

\* Invoke, lines 80-84: the result of CallTool is added to the response and
\* the range loop moves on.
AddResult ==
    /\ pc = "CallToolReturned"
    /\ LET m == ResultMessage(toolCalls[idx], ctMsg, ctErr)
       IN  /\ response' = AddMessage(response, m)
           /\ emitted' = Append(emitted, m)
           /\ dlog' = Append(dlog, [call |-> toolCalls[idx], msg |-> ctMsg,
                                    err |-> ctErr, added |-> m, turn |-> Turn])
    /\ idx' = idx + 1
    /\ pc' = "Dispatching"
    /\ UNCHANGED <<parked, callVars, wrapperVars, agent, llm, cancelled, callerRequest, request, toolCalls, result, used,
                   retryVars, sel, ctMsg, ctErr, sent, replies, dispatchNo, dispatchLog,
                   cancelAt>>

\* Mutant of Recurse: the recursive call is made after the first dispatch.
RecurseEarly ==
    /\ pc = "Dispatching"
    /\ idx > 1
    /\ request' = NextRequest(request, response)
    /\ response' = <<>>
    /\ toolCalls' = <<>>
    /\ idx' = 0
    /\ pc' = "AwaitingModel"
    /\ UNCHANGED <<parked, callVars, wrapperVars, agent, llm, cancelled, callerRequest, result, emitted, used, dlog,
                   retryVars, sel, ctMsg, ctErr, sent, replies, dispatchNo, dispatchLog,
                   cancelAt>>

\* Invoke, line 87: after the range loop, the recursive call.
Recurse ==
    /\ pc = "Dispatching"
    /\ idx > Len(toolCalls)
    /\ request' = NextRequest(request, response)
    /\ response' = <<>>
    /\ toolCalls' = <<>>
    /\ idx' = 0
    /\ pc' = "AwaitingModel"
    /\ UNCHANGED <<parked, callVars, wrapperVars, agent, llm, cancelled, callerRequest, result, emitted, used, dlog,
                   retryVars, sel, ctMsg, ctErr, sent, replies, dispatchNo, dispatchLog,
                   cancelAt>>

\* ---------------------------------------------------- Agent.CallTool
\* CallTool returns (message, err) to its caller.
Return(message, err) ==
    /\ ctMsg' = message
    /\ ctErr' = err
    /\ sel' = "none"
    /\ pc' = "CallToolReturned"

\* Mutant of LoopCondition: one attempt short.
LoopConditionStrict(a, n) == n < a.maxRetries

\* The loop condition of executeToolWithRetry: attempt <= a.maxRetries.
LoopCondition(a, n) == n <= a.maxRetries

\* CallTool, lines 94-101, and executeToolWithRetry up to its loop: the
\* tool is looked up; the locals of the retry loop are set.
CallTool ==
    /\ pc = "Dispatching"
    /\ idx <= Len(toolCalls)
    /\ dispatchNo' = dispatchNo + 1
    /\ execs' = <<>>
    /\ corrs' = <<>>
    /\ waits' = <<>>
    /\ LET toolCall == toolCalls[idx]
           i == FindToolIdx(agent.tools, toolCall.Name)
       IN  IF i = 0
           THEN /\ Return(NilMessage, ToolNotFound(toolCall.Name))
                /\ UNCHANGED retryVars
           ELSE /\ targetTool' = agent.tools[i]
                /\ lastErr' = NoErr
                /\ delay' = agent.retryDelay
                /\ currentToolCall' = toolCall
                /\ attempt' = 0
                /\ IF LoopCondition(agent, 0)
                   THEN /\ pc' = "Attempt"
                        /\ UNCHANGED <<ctMsg, ctErr, sel>>
                   ELSE Return(NilMessage, RetryExhausted(agent.maxRetries, NoErr))
    /\ UNCHANGED <<parked, callVars, wrapperVars, agent, llm, cancelled, invokeVars, sent, replies, toolRuns, cancelAt>>

\* Mutant of ExecuteAttempt: a successful attempt with attempts remaining
\* does not return; the loop runs the tool again.
ExecuteAttemptSuccessRepeated ==
    /\ pc = "Attempt"
    /\ execs' = Append(execs, currentToolCall.Args)
    /\ toolRuns' = toolRuns + 1
    /\ LET r == ExecuteToolAttempt(currentToolCall, targetTool)
       IN  IF r.err = NoErr
           THEN /\ lastErr' = lastErr
                /\ IF attempt < agent.maxRetries
                   THEN /\ attempt' = attempt + 1
                        /\ UNCHANGED <<pc, ctMsg, ctErr, sel>>
                   ELSE /\ Return(r.msg, NoErr)
                        /\ attempt' = attempt
           ELSE /\ lastErr' = r.err
                /\ attempt' = attempt
                /\ IF attempt = agent.maxRetries
                   THEN Return(NilMessage, RetryExhausted(agent.maxRetries, r.err))
                   ELSE /\ pc' = "Correcting"
                        /\ UNCHANGED <<ctMsg, ctErr, sel>>
    /\ UNCHANGED <<parked, callVars, wrapperVars, agent, llm, cancelled, invokeVars, targetTool,
                   currentToolCall, delay, sent, replies, dispatchNo, corrs, waits, dlog,
                   cancelAt>>

\* Mutant of ExecuteAttempt: the error of the first failed attempt is kept.
ExecuteAttemptFirstError ==
    /\ pc = "Attempt"
    /\ execs' = Append(execs, currentToolCall.Args)
    /\ toolRuns' = toolRuns + 1
    /\ LET r == ExecuteToolAttempt(currentToolCall, targetTool)
           e == IF lastErr = NoErr THEN r.err ELSE lastErr
       IN  IF r.err = NoErr
           THEN /\ Return(r.msg, NoErr)
                /\ lastErr' = lastErr
           ELSE /\ lastErr' = e
                /\ IF attempt = agent.maxRetries
                   THEN Return(NilMessage, RetryExhausted(agent.maxRetries, e))
                   ELSE /\ pc' = "Correcting"
                        /\ UNCHANGED <<ctMsg, ctErr, sel>>
    /\ UNCHANGED <<parked, callVars, wrapperVars, agent, llm, cancelled, invokeVars, targetTool,
                   currentToolCall, attempt, delay, sent, replies, dispatchNo, corrs, waits,
                   dlog, cancelAt>>

\* executeToolWithRetry, lines 131-142: one execution attempt.
ExecuteAttempt ==
    /\ pc = "Attempt"
    /\ execs' = Append(execs, currentToolCall.Args)
    /\ toolRuns' = toolRuns + 1
    /\ LET r == ExecuteToolAttempt(currentToolCall, targetTool)
       IN  IF r.err = NoErr
           THEN /\ Return(r.msg, NoErr)
                /\ lastErr' = lastErr
           ELSE /\ lastErr' = r.err
                /\ IF attempt = agent.maxRetries
                   THEN Return(NilMessage, RetryExhausted(agent.maxRetries, r.err))
                   ELSE /\ pc' = "Correcting"
                        /\ UNCHANGED <<ctMsg, ctErr, sel>>
    /\ UNCHANGED <<parked, callVars, wrapperVars, agent, llm, cancelled, invokeVars, targetTool, currentToolCall, attempt,
                   delay, sent, replies, dispatchNo, corrs, waits, dlog, cancelAt>>

\* The cases of the select of lines 123-128 that are ready when it is
\* entered: ctx.Done() if the context is cancelled, the timer if the delay
\* is not positive.
ReadyCases(isCancelled, d) ==
    (IF isCancelled THEN {"ctx"} ELSE {}) \cup (IF d <= 0 THEN {"timer"} ELSE {})

\* Mutant of Correct: the failure is not handled, the loop goes on to wait.
CorrectSkipped ==
    /\ pc = "Correcting"
    /\ attempt' = attempt + 1
    /\ IF LoopCondition(agent, attempt + 1)
       THEN /\ pc' = "Backoff"
            /\ sel' \in (IF ReadyCases(cancelled, delay) = {} THEN {"blocked"}
                         ELSE ReadyCases(cancelled, delay))
            /\ UNCHANGED <<ctMsg, ctErr>>
       ELSE Return(NilMessage, RetryExhausted(agent.maxRetries, lastErr))
    /\ UNCHANGED <<parked, callVars, wrapperVars, agent, llm, cancelled, invokeVars, targetTool, delay, lastErr,
                   dispatchNo, execs, waits, toolRuns, cancelAt, sent, replies, corrs,
                   currentToolCall>>

\* executeToolWithRetry, lines 144-150 and 120-123: the correction
\* round-trip through the wrapper, the loop increment, and the entry of
\* the select of the backoff wait.
Correct ==
    /\ pc = "Correcting"
    /\ \E reply \in llm.corrections :
          LET f == FormatterTool(targetTool.Schema)
              req == ForcedRequest(f, CorrectionRequest(currentToolCall, lastErr))
          IN  /\ sent' = Append(sent, req)
              /\ replies' = Append(replies, reply)
              /\ corrs' = Append(corrs, [req |-> req, reply |-> reply])
              /\ currentToolCall' = HandleToolFailure(currentToolCall, WrapperInvoke(f, reply))
    /\ attempt' = attempt + 1
    /\ IF LoopCondition(agent, attempt + 1)
       THEN /\ pc' = "Backoff"
            /\ sel' \in (IF ReadyCases(cancelled, delay) = {} THEN {"blocked"}
                         ELSE ReadyCases(cancelled, delay))
            /\ UNCHANGED <<ctMsg, ctErr>>
       ELSE Return(NilMessage, RetryExhausted(agent.maxRetries, lastErr))
    /\ UNCHANGED <<parked, callVars, wrapperVars, agent, llm, cancelled, invokeVars, targetTool, delay, lastErr,
                   dispatchNo, execs, waits, toolRuns, cancelAt>>

\* Mutant of WaitElapsed: the delay is not scaled after the wait.
WaitElapsedUnscaled ==
    /\ pc = "Backoff"
    /\ sel \in {"blocked", "timer"}
    /\ waits' = Append(waits, delay)
    /\ sel' = "none"
    /\ pc' = "Attempt"
    /\ UNCHANGED <<parked, callVars, wrapperVars, agent, llm, cancelled, invokeVars, retryVars,
                   ctMsg, ctErr, sent, replies, dispatchNo, execs, corrs, toolRuns, cancelAt>>

\* Mutant of WaitElapsed: the scaled delay is kept in the agent.
WaitElapsedShared ==
    /\ pc = "Backoff"
    /\ sel \in {"blocked", "timer"}
    /\ waits' = Append(waits, agent.retryDelay)
    /\ agent' = [agent EXCEPT !.retryDelay = ScaleDelay(@, agent.retryBackoff)]
    /\ delay' = ScaleDelay(agent.retryDelay, agent.retryBackoff)
    /\ sel' = "none"
    /\ pc' = "Attempt"
    /\ UNCHANGED <<parked, callVars, wrapperVars, llm, cancelled, invokeVars, targetTool,
                   currentToolCall, attempt, lastErr, ctMsg, ctErr, sent, replies, dispatchNo,
                   execs, corrs, toolRuns, cancelAt>>

\* The select of lines 123-128 takes the timer case: the wait is over and
\* the delay is scaled.
WaitElapsed ==
    /\ pc = "Backoff"
    /\ sel \in {"blocked", "timer"}
    /\ waits' = Append(waits, delay)
    /\ delay' = ScaleDelay(delay, agent.retryBackoff)
    /\ sel' = "none"
    /\ pc' = "Attempt"
    /\ UNCHANGED <<parked, callVars, wrapperVars, agent, llm, cancelled, invokeVars, targetTool, currentToolCall, attempt,
                   lastErr, ctMsg, ctErr, sent, replies, dispatchNo, execs, corrs,
                   toolRuns, cancelAt>>

\* The select of lines 123-128 takes the ctx.Done() case: return nil, ctx.Err().
WaitCancelled ==
    /\ pc = "Backoff"
    /\ sel = "ctx"
    /\ Return(NilMessage, Canceled)
    /\ UNCHANGED <<parked, callVars, wrapperVars, agent, llm, cancelled, invokeVars, retryVars, sent, replies,
                   dispatchNo, dispatchLog, cancelAt>>

\* Mutant of WakeOnCancel: the blocked select does not see the close.
WakeOnCancelLost(s) == s

\* A select blocked on ctx.Done() and the timer is woken by the close of
\* ctx.Done(): the ctx case is the one it takes.
WakeOnCancel(s) == IF s = "blocked" THEN "ctx" ELSE s

\* The environment cancels the context.  The program reads ctx only in the
\* select of the backoff wait, so the cancellation is placed either before
\* that select is entered (while the correction is under way) or during
\* the wait.
Cancel ==
    /\ ~cancelled
    /\ pc \in {"Correcting", "Backoff"}
    /\ cancelled' = TRUE
    /\ sel' = WakeOnCancel(sel)
    /\ cancelAt' = IF pc = "Backoff" /\ sel = "blocked"
                   THEN [set |-> TRUE, dispatch |-> dispatchNo, execs |-> Len(execs),
                         corrs |-> Len(corrs), waits |-> Len(waits), sent |-> Len(sent),
                         toolRuns |-> toolRuns]
                   ELSE cancelAt
    /\ UNCHANGED <<parked, callVars, wrapperVars, agent, llm, invokeVars, retryVars, pc, ctMsg, ctErr, sent, replies,
                   dispatchNo, dispatchLog>>

\* ------------------------------- BaseLLMWithStructuredOutput.Invoke
\* WithName
WithName(f, name) == [f EXCEPT !.Name = name]

\* The chains of wrappers a caller builds: each wrapper's underlying LLM is
\* the next wrapper of the chain, the last one's is the transport.
WrapperNames == {"formatter", "person"}
WrapperChains ==
    UNION {[1..k -> {WithName(FormatterTool("schema"), n) : n \in WrapperNames}] :
              k \in 1..MaxWrappers}

\* Replies a transport stub can give to a request with a forced tool: a
\* failure, no message, a text, or an optional text, a call of the forced
\* tool and an optional second call.
TransportReplies(req) ==
    LET call(id, a) == NewToolCallMessage(ToolCallRec(id, req.ToolUsage.ToolName, a))
    IN  {ReplyErr(ModelFailure), Reply(<<>>), Reply(<<AssistantMessage("text")>>)}
        \cup {Reply(pre \o <<call(1, a)>> \o post) :
                pre \in {<<>>, <<AssistantMessage("text")>>},
                a \in {RightSp, Right, NotJSON},
                post \in {<<>>, <<call(2, WrongSp)>>}}

\* A caller is about to run Invoke(ctx, callerRequest) on the outermost
\* wrapper of a chain.
InitWrapper ==
    /\ InitCommon
    /\ agent = NewAgent(<<>>)
    /\ llm \in {[corrections |-> {}, isNil |-> b] : b \in BOOLEAN}
    /\ callerRequest \in CallerRequests
    /\ request = callerRequest
    /\ response = <<>>
    /\ toolCalls = <<>>
    /\ idx = 0
    /\ emitted = <<>>
    /\ used = 0
    /\ wrappers \in WrapperChains
    /\ wrequests = <<callerRequest>>
    /\ wlevel = 1
    /\ wreply = ReplyErr(NoErr)
    /\ NoCall
    /\ pc = "WrapperInvoking"

\* What the wrapper of level wlevel hands to its caller: the wrapper above
\* it, or the caller of the chain.
WrapperHandsBack(out) ==
    /\ wreply' = out
    /\ wlevel' = wlevel - 1
    /\ IF wlevel = 1
       THEN /\ result' = Returned(out.isNil, out.Messages, out.err)
            /\ pc' = "WrapperDone"
       ELSE /\ result' = result
            /\ pc' = "WrapperReturning"

\* Invoke, lines 100-113, the underlying LLM being a wrapper: the forced
\* request is built and the wrapper below is invoked with it.
WrapperDelegates ==
    /\ pc = "WrapperInvoking"
    /\ wlevel < Len(wrappers)
    /\ wrequests' = Append(wrequests, ForcedRequest(wrappers[wlevel], wrequests[wlevel]))
    /\ wlevel' = wlevel + 1
    /\ UNCHANGED <<parked, callVars, agent, llm, cancelled, invokeVars, retryVars, pc, sel, ctMsg, ctErr,
                   sent, replies, dispatchNo, dispatchLog, cancelAt, wrappers, wreply>>

\* Invoke, lines 100-113, the underlying LLM being the transport: the forced
\* request is built and sent, the transport replies.
WrapperCallsTransport ==
    /\ pc = "WrapperInvoking"
    /\ wlevel = Len(wrappers)
    /\ ~llm.isNil
    /\ LET forced == ForcedRequest(wrappers[wlevel], wrequests[wlevel])
       IN  \E reply \in TransportReplies(forced) :
              /\ sent' = Append(sent, forced)
              /\ replies' = Append(replies, reply)
              /\ wreply' = reply
    /\ pc' = "WrapperReturning"
    /\ UNCHANGED <<parked, callVars, agent, llm, cancelled, invokeVars, retryVars, sel, ctMsg, ctErr,
                   dispatchNo, dispatchLog, cancelAt, wrappers, wrequests, wlevel>>

\* Invoke, lines 100-102: no underlying LLM is configured.
WrapperWithoutLLM ==
    /\ pc = "WrapperInvoking"
    /\ wlevel = Len(wrappers)
    /\ llm.isNil
    /\ WrapperHandsBack(ReplyErr(Err("no underlying LLM configured", 0, "")))
    /\ UNCHANGED <<parked, callVars, agent, llm, cancelled, callerRequest, request, response, toolCalls, idx,
                   emitted, used, dlog, retryVars, sel, ctMsg, ctErr, sent, replies,
                   dispatchNo, dispatchLog, cancelAt, wrappers, wrequests>>

\* Invoke, lines 114-142: the underlying LLM has returned; the wrapper
\* returns the payload of the first tool call as a message, or an error.
WrapperReturns ==
    /\ pc = "WrapperReturning"
    /\ wlevel >= 1
    /\ WrapperHandsBack(WrapperInvoke(wrappers[wlevel], wreply))
    /\ UNCHANGED <<parked, callVars, agent, llm, cancelled, callerRequest, request, response, toolCalls, idx,
                   emitted, used, dlog, retryVars, sel, ctMsg, ctErr, sent, replies,
                   dispatchNo, dispatchLog, cancelAt, wrappers, wrequests>>

\* ------------------------------------------------------ specifications
Program ==
    \/ ModelFails
    \/ ModelResponds
    \/ CallTool
    \/ ExecuteAttempt
    \/ Correct
    \/ WaitElapsed
    \/ WaitCancelled
    \/ AddResult
    \/ Recurse

Next == Program \/ Cancel

\* A run of Agent.Invoke.
Spec == InitInvoke /\ [][Next]_vars

\* A run of Agent.Invoke in which every step that can be taken is taken:
\* the transport, the tools and the timers return.
FairSpec == Spec /\ WF_vars(Program)

NextCallTool ==
    \/ CallTool
    \/ ExecuteAttempt
    \/ Correct
    \/ WaitElapsed
    \/ WaitCancelled
    \/ Cancel

\* One dispatch, Agent.CallTool, run on its own.
SpecCallTool == InitCallTool /\ [][NextCallTool]_vars

NextWrapper ==
    \/ WrapperDelegates
    \/ WrapperCallsTransport
    \/ WrapperWithoutLLM
    \/ WrapperReturns

\* One invocation of a chain of wrappers.
SpecWrapper == InitWrapper /\ [][NextWrapper]_vars

\* The transport's reply in turn t.
MainReply(t) == replies[MainIdx[t]]
Last(s) == s[Len(s)]
Range(s) == {s[i] : i \in 1..Len(s)}
IsPrefix(s, t) == Len(s) <= Len(t) /\ SubSeq(t, 1, Len(s)) = s
\* The tool call CallTool was given, and the toolbox tool of that name.
DispatchedCall == toolCalls[idx]
DispatchedTool == agent.tools[FindToolIdx(agent.tools, DispatchedCall.Name)]
InDispatch == pc \in {"Attempt", "Correcting", "Backoff", "CallToolReturned"}
ToolPresent == FindToolIdx(agent.tools, DispatchedCall.Name) # 0
\* A tool whose run fails whatever the arguments.
AlwaysFails(t) ==
    \A a \in {WrongSp, Wrong, RightSp, Right, NotJSON} : ToolRun(t, a).err # NoErr
IsRetryExhausted(e) == e.kind = "tool call failed after retries"

\* ---------------------------------------------------------------- C1
\* C1: when Agent.Invoke ends successfully, the message list it returns is
\* the caller's history followed by every turn's messages (the model's,
\* then the tool results) in emission order.
C1_ReturnsWholeConversation ==
    pc = "Done" => result.Messages = callerRequest.History \o emitted

\* ---------------------------------------------------------------- C2
\* C2: with maxRetries = N >= 0 and a toolbox tool whose run always fails,
\* a dispatch never returns a message, runs the tool at most N+1 times and
\* makes at most N correction round-trips; unless the cancellation ends it,
\* it ends with the retry-exhausted error after exactly N+1 executions and
\* exactly N correction round-trips.
C2_BoundedRetries ==
    (InDispatch /\ ToolPresent /\ agent.maxRetries >= 0 /\ AlwaysFails(DispatchedTool)) =>
        /\ Len(execs) <= agent.maxRetries + 1
        /\ Len(corrs) <= agent.maxRetries
        /\ Len(corrs) = Cardinality({i \in 1..Len(sent) : sent[i].ToolUsage.Type = "forced"})
        /\ pc = "CallToolReturned" =>
              /\ ctMsg = NilMessage
              /\ ctErr = Canceled \/ IsRetryExhausted(ctErr)
              /\ IsRetryExhausted(ctErr) =>
                    /\ Len(execs) = agent.maxRetries + 1
                    /\ Len(corrs) = agent.maxRetries
                    /\ ctErr.n = agent.maxRetries + 1

C2_Witness ==
    /\ pc = "CallToolReturned" /\ ToolPresent /\ AlwaysFails(DispatchedTool)
    /\ agent.maxRetries >= 2
    /\ IsRetryExhausted(ctErr)
    /\ Len(execs) = agent.maxRetries + 1 /\ Len(corrs) = agent.maxRetries

\* ---------------------------------------------------------------- C3
\* C3: if the first reply of the model holds no tool call, Agent.Invoke has
\* returned exactly that reply after one transport call and no tool run.
C3_NoToolCallFirstTurn ==
    (Len(replies) >= 1 /\ replies[1].err = NoErr
        /\ Len(ToolCalls(replies[1].Messages)) = 0) =>
        /\ pc = "Done"
        /\ Len(sent) = 1
        /\ toolRuns = 0 /\ dispatchNo = 0
        /\ result = Returned(FALSE, replies[1].Messages, NoErr)

C3_Witness ==
    /\ pc = "Done" /\ Len(sent) = 1 /\ toolRuns = 0
    /\ result.Messages = <<AssistantMessage("text")>>

\* ---------------------------------------------------------------- C4
\* C4: with maxRetries >= 1, a tool that fails on the call's arguments and
\* succeeds on arguments A, and a model that answers every correction
\* request with a call of the forced tool carrying A, a dispatch that is
\* not cancelled succeeds on the second execution attempt: two executions,
\* one correction round-trip, a result message and no error.
C4_CorrectionSucceedsOnSecondAttempt ==
    \A A \in {RightSp, Right} :
        (/\ pc = "CallToolReturned" /\ ToolPresent /\ agent.maxRetries >= 1
         /\ ToolRun(DispatchedTool, DispatchedCall.Args).err # NoErr
         /\ ToolRun(DispatchedTool, A).err = NoErr
         /\ \A k \in 1..Len(corrs) : corrs[k].reply = Reply(<<FormatterCall(A)>>)
         /\ ctErr # Canceled) =>
            /\ Len(execs) = 2
            /\ Len(corrs) = 1
            /\ ctMsg # NilMessage
            /\ ctErr = NoErr

\* ---------------------------------------------------------------- C5
\* C5: once the cancellation has fired while a dispatch was blocked in a
\* backoff wait, that dispatch makes no further execution attempt, wait or
\* correction round-trip, the wait is not completed, and the dispatch
\* returns the cancellation error with no message.
C5_CancelDuringBackoff ==
    (cancelAt.set /\ cancelAt.dispatch = dispatchNo /\ InDispatch) =>
        /\ Len(execs) = cancelAt.execs
        /\ Len(corrs) = cancelAt.corrs
        /\ Len(waits) = cancelAt.waits
        /\ Len(sent) = cancelAt.sent
        /\ pc \in {"Backoff", "CallToolReturned"}
        /\ pc = "Backoff" => sel = "ctx"
        /\ pc = "CallToolReturned" => (ctErr = Canceled /\ ctMsg = NilMessage)

C5_Witness ==
    /\ cancelAt.set /\ pc = "CallToolReturned" /\ ctErr = Canceled
    /\ Len(execs) = 2 /\ Len(waits) = 1 /\ agent.maxRetries >= 2

\* ---------------------------------------------------------------- C6
\* C6: once the cancellation has fired during a backoff wait inside a run
\* of Agent.Invoke, no further tool is executed and no further request is
\* sent to the model, the cancellation is not recorded as a tool-result
\* message, and the run ends failed with the cancellation error.
C6_CancelAbortsRun ==
    cancelAt.set =>
        /\ toolRuns = cancelAt.toolRuns
        /\ Len(sent) = cancelAt.sent
        /\ \A k \in 1..Len(emitted) : emitted[k].Result.errText # Canceled
        /\ pc \in {"Backoff", "CallToolReturned", "Failed"}
        /\ pc = "Failed" => result = Returned(TRUE, <<>>, Canceled)

\* ---------------------------------------------------------------- C7
\* The finished dispatches of turn t.
DispatchesOf(t) == SelectSeq(dlog, LAMBDA d : d.turn = t)
IsDispatchFailure(e) == IsRetryExhausted(e) \/ e.kind = "tool not found"
\* The turns whose range loop is over.
TurnsDispatched == {t \in 1..Turn : t < Turn \/ pc \in {"AwaitingModel", "Done", "Failed"}
                                    \/ (pc = "Dispatching" /\ idx > Len(toolCalls))}

\* C7: a dispatch that fails (retries exhausted, tool not found) does not
\* make Agent.Invoke fail: the message added for it is the error message
\* for that very call, it is in the turn's messages, every tool call of
\* the turn is dispatched, and the request of the next turn holds the
\* error message in its history; Agent.Invoke fails only when the
\* transport fails.
C7_DispatchFailureIsLocal ==
    /\ \A i \in 1..Len(dlog) :
          IsDispatchFailure(dlog[i].err) =>
              /\ dlog[i].added = NewToolResultErrorMessage(dlog[i].call, dlog[i].err)
              /\ dlog[i].added \in Range(emitted)
              /\ dlog[i].turn = Turn => dlog[i].added \in Range(response) \cup Range(request.History)
              /\ dlog[i].turn < Turn =>
                    dlog[i].added \in Range(sent[MainIdx[dlog[i].turn + 1]].History)
    /\ \A t \in TurnsDispatched :
          MainReply(t).err = NoErr =>
              Len(DispatchesOf(t)) = Len(ToolCalls(MainReply(t).Messages))
    /\ pc = "Failed" => (Last(replies).err # NoErr /\ Last(sent).ToolUsage.Type = "auto")

C7_Witness ==
    /\ Turn >= 2
    /\ Len(dlog) >= 2
    /\ dlog[1].turn = 1 /\ dlog[2].turn = 1
    /\ IsDispatchFailure(dlog[1].err)
    /\ dlog[1].added \in Range(Last(sent).History)

\* ---------------------------------------------------------------- C8
\* C8: while and after the k >= 1 tool calls of a turn are dispatched, the
\* turn's message list is the model's messages followed by one result
\* message per dispatched call, the i-th for the i-th tool call (same id
\* and name); after the loop there are exactly k of them.
C8_OneResultPerCallInOrder ==
    (pc \in {"Dispatching", "Attempt", "Correcting", "Backoff", "CallToolReturned"}) =>
        LET base == MainReply(Turn).Messages
            calls == ToolCalls(base)
        IN  /\ Len(calls) >= 1
            /\ toolCalls = calls
            /\ idx \in 1..(Len(calls) + 1)
            /\ Len(response) = Len(base) + (idx - 1)
            /\ SubSeq(response, 1, Len(base)) = base
            /\ \A i \in 1..(idx - 1) :
                  /\ response[Len(base) + i].type = "ToolResultMessage"
                  /\ response[Len(base) + i].ToolCall.ID = calls[i].ID
                  /\ response[Len(base) + i].ToolCall.Name = calls[i].Name

C8_Witness ==
    /\ pc = "Dispatching" /\ idx = 3 /\ Len(toolCalls) = 2
    /\ Len(response) = 5
    /\ response[4].Result.errText # NoErr
    /\ response[5].Result.errText = NoErr

\* ---------------------------------------------------------------- C9
\* C9: when the transport fails in a turn, Agent.Invoke has returned that
\* error with no response and nothing has happened since: the failed
\* request is the last one sent, no earlier main-loop request failed (no
\* retry), and a failed run ends on a transport failure.
C9_TransportFailureIsFatal ==
    /\ \A t \in 1..Turn :
          MainReply(t).err # NoErr =>
              /\ t = Turn
              /\ MainIdx[t] = Len(sent)
              /\ pc = "Failed"
              /\ result = Returned(TRUE, <<>>, MainReply(t).err)
    /\ pc = "Failed" => (Turn >= 1 /\ MainReply(Turn).err # NoErr /\ ~ENABLED Next)

C9_Witness ==
    /\ pc = "Failed" /\ Turn >= 2 /\ toolRuns >= 1 /\ Len(corrs) >= 1
    /\ result.isNil /\ result.err = ModelFailure

\* --------------------------------------------------------------- C10
\* C10: a run in which the transport, the tools and the waits return ends
\* (the model stops emitting tool calls within the bound), it ends
\* successfully only on a reply without tool calls, and a turn whose reply
\* holds tool calls is always followed by another invocation of the model.
C10_TerminatesWhenModelStops ==
    /\ <>(pc \in {"Done", "Failed"})
    /\ [](pc = "Done" => Len(ToolCalls(MainReply(Turn).Messages)) = 0)
    /\ (pc = "Dispatching") ~> (pc = "AwaitingModel")

C10_Witness ==
    /\ pc = "Done" /\ Turn = MaxToolCalls + 1
    /\ used = MaxToolCalls

\* ---------------------------------------------------------------- C11
\* C11: whenever Agent.Invoke has returned successfully, what it returned
\* is the last reply of the model and that reply holds no tool call; a
\* reply that holds a tool call is never what the caller gets.
C11_DoneOnlyWithoutToolCalls ==
    (result.returned /\ result.err = NoErr) =>
        /\ pc = "Done"
        /\ ~result.isNil
        /\ result.Messages = MainReply(Turn).Messages
        /\ Len(ToolCalls(MainReply(Turn).Messages)) = 0
        /\ \A k \in 1..Len(result.Messages) : Kind(result.Messages[k]) # "tool_call"

C11_Witness ==
    /\ pc = "Done" /\ result.returned /\ result.err = NoErr
    /\ Turn = 2 /\ toolRuns >= 1
    /\ Len(ToolCalls(MainReply(1).Messages)) = 2

\* ------------------------------------------------- wrapper claims
\* The innermost wrapper of the chain, the one over the transport, has
\* returned: replies[1] is what the transport gave it, wreply what it returned.
InnermostReturned ==
    /\ pc \in {"WrapperReturning", "WrapperDone"}
    /\ wlevel = Len(wrappers) - 1
    /\ Len(replies) = 1
\* The forced request the wrapper of level i built.
ForcedOf(i) == IF i < Len(wrappers) THEN wrequests[i + 1] ELSE sent[1]
\* The levels of the chain that have built their forced request.
LevelsForwarded == {i \in 1..Len(wrappers) : i < Len(wrequests) \/ (i = Len(wrappers) /\ Len(sent) = 1)}
\* The transport honoured the forced policy: one call of the forced tool,
\* with arguments that are JSON.
TransportHonouredForce ==
    /\ Len(replies) = 1 /\ replies[1].err = NoErr
    /\ Len(replies[1].Messages) = 1
    /\ Kind(replies[1].Messages[1]) = "tool_call"
    /\ replies[1].Messages[1].ToolCall.Name = sent[1].ToolUsage.ToolName
    /\ ValidJSON(replies[1].Messages[1].ToolCall.Args)

\* ---------------------------------------------------------------- C12
\* C12: when the underlying model's reply holds at least one tool call,
\* the wrapper succeeds and its payload is exactly the arguments of the
\* first tool call of the reply, unchanged; further tool calls are ignored.
C12_PayloadIsFirstCallArgs ==
    (InnermostReturned /\ replies[1].err = NoErr
        /\ Len(ToolCalls(replies[1].Messages)) >= 1) =>
        /\ wreply.err = NoErr
        /\ Len(wreply.Messages) = 1
        /\ wreply.Messages[1].Content = ToolCalls(replies[1].Messages)[1].Args

\* ---------------------------------------------------------------- C13
\* C13: when the underlying model's reply to the forced request holds no
\* tool call, the wrapper fails with the no-tool-call error and returns no
\* response; when the underlying model fails, the wrapper fails too; either
\* way the underlying model was invoked exactly once by each wrapper.
C13_NoForcedCallIsAnError ==
    /\ Len(sent) <= 1
    /\ Len(wrequests) <= Len(wrappers)
    /\ (InnermostReturned /\ replies[1].err = NoErr
           /\ Len(ToolCalls(replies[1].Messages)) = 0) =>
          /\ wreply.err.kind = "no tool call found in response"
          /\ wreply.isNil /\ wreply.Messages = <<>>
    /\ (InnermostReturned /\ replies[1].err # NoErr) =>
          /\ wreply.err = Err("underlying LLM invocation failed", 0, replies[1].err.kind)
          /\ wreply.isNil /\ wreply.Messages = <<>>
    /\ (pc = "WrapperDone" /\ Len(replies) = 1
           /\ (replies[1].err # NoErr \/ Len(ToolCalls(replies[1].Messages)) = 0)) =>
          (result.err # NoErr /\ result.isNil /\ Len(sent) = 1)

C13_Witness ==
    /\ pc = "WrapperDone" /\ Len(wrappers) = 1 /\ Len(sent) = 1
    /\ replies[1] = Reply(<<AssistantMessage("text")>>)
    /\ result.err.kind = "no tool call found in response" /\ result.isNil

\* ---------------------------------------------------------------- C14
\* C14: a wrapper that succeeds returns exactly one message: a text message
\* of role assistant whose content is the payload; no tool-call message.
C14_OneAssistantTextMessage ==
    (pc = "WrapperDone" /\ result.err = NoErr) =>
        /\ ~result.isNil
        /\ Len(result.Messages) = 1
        /\ Kind(result.Messages[1]) = "text"
        /\ Role(result.Messages[1]) = "assistant"
        /\ Compact(result.Messages[1].Content) = Compact(ToolCalls(replies[1].Messages)[1].Args)

\* ---------------------------------------------------------------- C15
\* C15: the request a wrapper sends to its underlying model has the history
\* of the request the wrapper was given, exactly one tool, the wrapper
\* itself, and the policy that forces the tool of the wrapper's name,
\* whatever tools and policy the caller's request carried; so the forced
\* tool of each such request is in the request's tool set.
C15_ForcedRequestShape ==
    \A i \in LevelsForwarded :
        /\ ForcedOf(i).History = wrequests[i].History
        /\ ForcedOf(i).History = callerRequest.History
        /\ ForcedOf(i).Tools = <<wrappers[i]>>
        /\ ForcedOf(i).ToolUsage = ForceTool(wrappers[i].Name)
        /\ \E k \in 1..Len(ForcedOf(i).Tools) :
              ForcedOf(i).Tools[k].Name = ForcedOf(i).ToolUsage.ToolName

C15_Witness ==
    /\ Len(wrappers) = 2 /\ Len(sent) = 1
    /\ wrappers[1].Name # wrappers[2].Name
    /\ callerRequest.ToolUsage = ForceTool("extra") /\ Len(callerRequest.Tools) = 1
    /\ sent[1].Tools = <<wrappers[2]>>

\* ---------------------------------------------------------------- C16
\* C16: a wrapper over a wrapper over a transport that honours the forced
\* policy succeeds, and its payload is the structured payload the transport
\* produced.
C16_WrappersCompose ==
    (pc = "WrapperDone" /\ Len(wrappers) >= 2 /\ TransportHonouredForce) =>
        /\ result.err = NoErr
        /\ Len(result.Messages) = 1
        /\ Compact(result.Messages[1].Content) = Compact(replies[1].Messages[1].ToolCall.Args)

\* ------------------------------------------- claims on the requests
\* A request of the main loop of Agent.Invoke: its history starts with the
\* caller's history (a correction request holds the correction prompt only).
IsMainRequest(r) == IsPrefix(callerRequest.History, r.History)
MainRequests == SelectSeq(sent, IsMainRequest)
\* The request the main loop sent in turn t.
MainSent(t) == sent[MainIdx[t]]
\* The messages of turn t: the model's, then the results added in the turn.
AddedIn(t) == [k \in 1..Len(DispatchesOf(t)) |-> DispatchesOf(t)[k].added]
TurnMessages(t) == MainReply(t).Messages \o AddedIn(t)
\* The correction round-trip replaced the arguments of the call of message m.
ArgsReplaced(L, k) ==
    \E j \in 1..(k - 1) :
        /\ Kind(L[j]) = "tool_call"
        /\ L[j].ToolCall.ID = L[k].ToolCall.ID
        /\ L[j].ToolCall.Args # L[k].ToolCall.Args
\* Every result message of the list refers to a tool call emitted earlier
\* in the list, by id and name.
ResultsReferToCalls(L) ==
    \A k \in 1..Len(L) :
        Kind(L[k]) = "tool_result" =>
            \E j \in 1..(k - 1) :
                /\ Kind(L[j]) = "tool_call"
                /\ L[j].ToolCall.ID = L[k].ToolCall.ID
                /\ L[j].ToolCall.Name = L[k].ToolCall.Name

\* ---------------------------------------------------------------- C17
\* C17: every request the main loop of Agent.Invoke sends, in every turn,
\* has the policy Auto and a tool set that is exactly the agent's toolbox,
\* whatever tools and policy the caller's request carried.
C17_MainRequestToolsAreToolbox ==
    /\ Len(MainRequests) = Turn
    /\ \A t \in 1..Len(MainRequests) :
          /\ MainRequests[t].ToolUsage = AutoToolSelection
          /\ MainRequests[t].Tools = agent.tools

\* ---------------------------------------------------------------- C18
\* C18: in every turn, the request sent to the transport carries the system
\* preamble, the completion-token limit and the temperature of the request
\* the caller passed to Agent.Invoke.
C18_EveryTurnClonesCallerRequest ==
    \A t \in 1..Turn :
        /\ MainSent(t).System = callerRequest.System
        /\ MainSent(t).MaxCompletionTokens = callerRequest.MaxCompletionTokens
        /\ MainSent(t).Temperature = callerRequest.Temperature

\* ---------------------------------------------------------------- C19
\* C19: the history sent in turn t+1 is the history sent in turn t followed
\* by the messages of turn t, the model's and then the tool results; so
\* every earlier history is a prefix of every later one.
C19_HistoryGrowsByAppending ==
    /\ Turn >= 1 => MainSent(1).History = callerRequest.History
    /\ \A t \in 1..(Turn - 1) :
          MainSent(t + 1).History = MainSent(t).History \o TurnMessages(t)
    /\ \A t \in 1..Turn, u \in 1..Turn :
          t <= u => IsPrefix(MainSent(t).History, MainSent(u).History)

C19_Witness ==
    /\ Turn = 3
    /\ Len(DispatchesOf(1)) = 1 /\ Len(DispatchesOf(2)) = 1
    /\ DispatchesOf(1)[1].err # NoErr
    /\ Len(MainSent(3).History) > Len(MainSent(2).History)

\* ---------------------------------------------------------------- C20
\* C20: in every history the agent sends to the model and in the message
\* list it returns, each tool-result message refers to a tool call whose
\* id and name are those of a tool-call message earlier in the same list,
\* also when a correction replaced the arguments of the call.
C20_ResultsReferToEarlierCalls ==
    /\ \A i \in 1..Len(sent) : ResultsReferToCalls(sent[i].History)
    /\ result.returned => ResultsReferToCalls(result.Messages)

C20_Witness ==
    \E i \in 1..Len(sent) :
        \E k \in 1..Len(sent[i].History) :
            /\ Kind(sent[i].History[k]) = "tool_result"
            /\ sent[i].History[k].Result.errText = NoErr
            /\ ArgsReplaced(sent[i].History, k)

\* ------------------------------------------- claims on the dispatch
\* No tool of the toolbox has the name of the dispatched call.
NameAbsent == \A i \in 1..Len(agent.tools) : agent.tools[i].Name # DispatchedCall.Name
\* What the k-th correction round-trip of the dispatch gave: (args, error).
CorrectionOf(k) ==
    CorrectToolCall(WrapperInvoke(FormatterTool(targetTool.Schema), corrs[k].reply))

\* ---------------------------------------------------------------- C22
\* C22: a tool call that names a tool absent from the toolbox fails at
\* lookup with the tool-not-found error and no message; no tool is run, no
\* wait is made and no correction request is sent for it, whatever
\* maxRetries is.
C22_AbsentToolFailsAtLookup ==
    (InDispatch /\ NameAbsent) =>
        /\ pc = "CallToolReturned"
        /\ ctErr = ToolNotFound(DispatchedCall.Name)
        /\ ctMsg = NilMessage
        /\ execs = <<>> /\ corrs = <<>> /\ waits = <<>>
        /\ toolRuns = 0 /\ sent = <<>>

C22_Witness ==
    /\ pc = "CallToolReturned" /\ NameAbsent
    /\ agent.maxRetries = MaxRetriesDispatch
    /\ ctErr = ToolNotFound("ghost")

\* ---------------------------------------------------------------- C25
\* C25: within a run, a dispatch starts only when every dispatch started
\* before it has finished; the calls of a turn are dispatched in emission
\* order; and the model is invoked for turn t+1 only after every tool call
\* of turn t has been dispatched.
C25_StrictlySequential ==
    /\ dispatchNo = Len(dlog) + (IF InDispatch THEN 1 ELSE 0)
    /\ pc \in {"Dispatching", "Attempt", "Correcting", "Backoff", "CallToolReturned"} =>
          /\ toolCalls = ToolCalls(MainReply(Turn).Messages)
          /\ Len(DispatchesOf(Turn)) = idx - 1
          /\ \A k \in 1..Len(DispatchesOf(Turn)) : DispatchesOf(Turn)[k].call = toolCalls[k]
    /\ \A t \in 1..(Turn - 1) :
          [k \in 1..Len(DispatchesOf(t)) |-> DispatchesOf(t)[k].call]
              = ToolCalls(MainReply(t).Messages)

C25_Witness ==
    /\ Turn = 2 /\ Len(DispatchesOf(1)) = 2
    /\ toolRuns >= 3
    /\ DispatchesOf(1)[1].call.ID = 1 /\ DispatchesOf(1)[2].call.ID = 2

\* ---------------------------------------------------------------- C28
\* C28: after a failed execution attempt with attempts remaining, the wait
\* comes first and the correction round-trip after it: no correction has
\* been made that a completed wait does not precede, and once the
\* cancellation has fired during the wait after a failure, the correction
\* request for that failure has not been and is never sent.
C28_WaitBeforeCorrection ==
    InDispatch =>
        /\ Len(corrs) <= Len(waits)
        /\ (cancelAt.set /\ cancelAt.dispatch = dispatchNo) => Len(corrs) < Len(execs)

\* C28 (as the code has it): after a failed execution attempt with attempts
\* remaining, the correction round-trip comes first and the wait after it:
\* every wait is preceded by the correction for the failure before it, and
\* when the cancellation fires during a wait the correction request for
\* that failure has been sent already; the arguments it gave are not run.
C28_CorrectionBeforeWait ==
    InDispatch =>
        /\ Len(waits) <= Len(corrs)
        /\ Len(corrs) <= Len(waits) + 1
        /\ pc = "Backoff" => (Len(corrs) = Len(waits) + 1 /\ Len(corrs) = Len(execs))
        /\ pc = "Attempt" => (Len(corrs) = Len(waits) /\ Len(execs) = Len(waits))
        /\ (cancelAt.set /\ cancelAt.dispatch = dispatchNo) =>
              /\ Len(corrs) = Len(execs)
              /\ Len(corrs) = Len(waits) + 1
              /\ Last(sent) = Last(corrs).req

C28_Witness ==
    /\ cancelAt.set /\ pc = "CallToolReturned" /\ ctErr = Canceled
    /\ Len(corrs) = 1 /\ Len(waits) = 0 /\ Len(execs) = 1
    /\ Last(corrs).reply = Reply(<<FormatterCall(Right)>>)

C30_CorrectedArgsAreRun ==
    (InDispatch /\ ~NameAbsent) =>
        /\ targetTool = DispatchedTool
        /\ \A k \in 1..Len(corrs) :
              (CorrectionOf(k).err = NoErr /\ Len(execs) > k) =>
                  execs[k + 1] = CorrectionOf(k).args
        /\ (pc = "CallToolReturned" /\ ctErr = NoErr) =>
              /\ Kind(ctMsg) = "tool_result"
              /\ ctMsg.ToolCall.ID = DispatchedCall.ID
              /\ ctMsg.ToolCall.Name = DispatchedCall.Name
              /\ ctMsg.ToolCall.Args = Last(execs)

C30_Witness ==
    /\ pc = "CallToolReturned" /\ ctErr = NoErr
    /\ Len(execs) = 2 /\ execs[1] = WrongSp /\ execs[2] = Right
    /\ CorrectionOf(1).args = Right
    /\ ctMsg.ToolCall.Args = Right /\ DispatchedCall.Args = WrongSp

\* ----------------------------------------------- NewToolbox, NewAgent
\* Everything but the agent, the program position and the function run on
\* its own.
runVars == <<parked, llm, cancelled, invokeVars, retryVars, sel, ctMsg, ctErr, sent, replies,
             dispatchNo, dispatchLog, cancelAt, wrapperVars>>

\* No run is under way and no wrapper is invoked.
InitRest ==
    /\ InitCommon
    /\ NoWrapperRun
    /\ llm = [corrections |-> {}, isNil |-> FALSE]
    /\ callerRequest = NewLLMRequest(<<>>)
    /\ request = callerRequest
    /\ response = <<>>
    /\ toolCalls = <<>>
    /\ idx = 0
    /\ emitted = <<>>
    /\ used = 0

\* The same, with an agent without tools.
InitIdle ==
    /\ InitRest
    /\ agent = NewAgent(<<>>)

\* NewToolbox(tools...): return tools.
NewToolbox(tools) == tools

\* The tools a caller has at hand, two of them with the same name, and the
\* lists it can pass.
ToolChoices == {OkTool("calculator"), AlwaysFailTool("calculator"), OkTool("weather")}
ToolLists == UNION {[1..k -> ToolChoices] : k \in 0..MaxTools}
ToolNames == {"calculator", "weather", "ghost"}
HasDuplicateNames(tools) ==
    \E i, j \in 1..Len(tools) : i # j /\ tools[i].Name = tools[j].Name

\* A caller is about to build a toolbox and an agent from a list of tools.
InitToolbox ==
    /\ InitIdle
    /\ args \in {[tools |-> ts] : ts \in ToolLists}
    /\ ret = NoArgs
    /\ mem = NoMem
    /\ pc = "Constructing"

\* toolbox := NewToolbox(tools...)
NewToolboxCall ==
    /\ pc = "Constructing"
    /\ ret' = [toolbox |-> NewToolbox(args.tools), rejected |-> FALSE, found |-> NilTool,
               err |-> NoErr]
    /\ pc' = "ToolboxBuilt"
    /\ UNCHANGED <<agent, runVars, args, mem>>

\* agent := NewAgent(llm, toolbox)
NewAgentCall ==
    /\ pc = "ToolboxBuilt"
    /\ agent' = NewAgent(ret.toolbox)
    /\ pc' = "AgentBuilt"
    /\ UNCHANGED <<runVars, callVars>>

\* FindTool(name, toolbox)
FindToolCall ==
    /\ pc = "AgentBuilt"
    /\ \E name \in ToolNames :
          LET i == FindToolIdx(ret.toolbox, name)
          IN  ret' = [ret EXCEPT !.found = IF i = 0 THEN NilTool ELSE ret.toolbox[i],
                                 !.err = IF i = 0 THEN ToolNotFound(name) ELSE NoErr]
    /\ pc' = "LookedUp"
    /\ UNCHANGED <<agent, runVars, args, mem>>

NextToolbox ==
    \/ NewToolboxCall
    \/ NewAgentCall
    \/ FindToolCall

\* The construction of a toolbox and an agent, and a lookup.
SpecToolbox == InitToolbox /\ [][NextToolbox]_vars

\* ---------------------------------------------------------------- C23
\* C23: a list of tools two of which have the same name is rejected when
\* the toolbox is built from it; no toolbox and no agent holds two tools
\* with the same name.
C23_DuplicateNamesRejected ==
    /\ (pc \in {"ToolboxBuilt", "AgentBuilt", "LookedUp"} /\ HasDuplicateNames(args.tools)) =>
          ret.rejected
    /\ (pc \in {"ToolboxBuilt", "AgentBuilt", "LookedUp"} /\ ~ret.rejected) =>
          ~HasDuplicateNames(ret.toolbox)
    /\ pc \in {"AgentBuilt", "LookedUp"} => ~HasDuplicateNames(agent.tools)

\* ------------------------------------------------- OpenAIAdapter.Invoke
\* A request without a policy (ToolUsage == nil), and a policy of a type the
\* adapter does not know.
NilToolUsage == [Type |-> "nil", ToolName |-> ""]
CustomToolUsage == [Type |-> "custom", ToolName |-> ""]

\* What convertToolUsage and the adapter return: the tool choice ("" when
\* none is set) and the error.
NoToolChoice == ""
Converted(toolChoice, err) == [toolChoice |-> toolChoice, err |-> err]

\* convertToolUsage(toolUsage, tools), with findTool(forced.ToolName, tools).
convertToolUsage(toolUsage, tools) ==
    CASE toolUsage.Type = "auto" -> Converted(NoToolChoice, NoErr)
      [] toolUsage.Type = "forced" ->
            LET i == FindToolIdx(tools, toolUsage.ToolName)
            IN  IF i = 0
                THEN Converted(NoToolChoice,
                               Err("forced tool not available", 0, toolUsage.ToolName))
                ELSE Converted(tools[i].Name, NoErr)
      [] OTHER -> Converted(NoToolChoice, NoErr)

\* if request.ToolUsage != nil && len(request.Tools) > 0
ToolsHandled(req) == req.ToolUsage # NilToolUsage /\ Len(req.Tools) > 0

\* convertTools: the function definitions the API is given, by name.
convertTools(tools) == [i \in 1..Len(tools) |-> tools[i].Name]

\* The chat completion request Invoke prepares, or the error it returns
\* instead.
ChatRequest(req) ==
    LET messages == <<Msg("SystemMessage", req.System, NoToolCall, NoRaw)>> \o req.History
        bare == [Messages |-> messages, Tools |-> <<>>, ToolChoice |-> NoToolChoice]
        conv == convertToolUsage(req.ToolUsage, req.Tools)
    IN  IF ~ToolsHandled(req)
        THEN [chatReq |-> bare, err |-> NoErr]
        ELSE IF conv.err # NoErr
             THEN [chatReq |-> bare,
                   err |-> Err("failed to convert tool usage", 0, conv.err.kind)]
             ELSE [chatReq |-> [bare EXCEPT !.Tools = convertTools(req.Tools),
                                            !.ToolChoice = conv.toolChoice],
                   err |-> NoErr]

\* What the API answers: a failure, no choice, or one choice with a text,
\* calls, or both.  A set tool choice is honoured.
ApiCall(name) == ToolCallRec(1, name, Right)
ApiChoice(content, calls) == [err |-> NoErr, choices |-> <<[Content |-> content, ToolCalls |-> calls]>>]
ApiFailure == [err |-> Err("api failure", 0, ""), choices |-> <<>>]
ApiReplies(chatReq) ==
    {ApiFailure, [err |-> NoErr, choices |-> <<>>]}
    \cup (IF chatReq.ToolChoice # NoToolChoice
          THEN {ApiChoice("", <<ApiCall(chatReq.ToolChoice)>>)}
          ELSE {ApiChoice("text", <<>>)}
               \cup {ApiChoice(c, <<ApiCall(chatReq.Tools[i])>>) :
                        c \in {"", "text"}, i \in 1..Len(chatReq.Tools)})

\* The response Invoke builds from the first choice.
ConvertChoice(reply) ==
    IF reply.choices = <<>> THEN <<>>
    ELSE LET choice == reply.choices[1]
         IN  (IF choice.Content # "" THEN <<AssistantMessage(choice.Content)>> ELSE <<>>)
             \o [i \in 1..Len(choice.ToolCalls) |-> NewToolCallMessage(choice.ToolCalls[i])]

AdapterPolicies ==
    {NilToolUsage, AutoToolSelection, CustomToolUsage} \cup {ForceTool(n) : n \in ToolNames}
AdapterRequests ==
    {WithToolUsage(WithTools(NewLLMRequest(Question), ts), p) :
        ts \in ToolLists, p \in AdapterPolicies}

\* A caller is about to invoke the adapter on a request.
InitAdapter ==
    /\ InitIdle
    /\ args \in {[request |-> r] : r \in AdapterRequests}
    /\ ret = NoArgs
    /\ mem = NoMem
    /\ pc = "AdapterInvoked"

NoChatRequest == [Messages |-> <<>>, Tools |-> <<>>, ToolChoice |-> NoToolChoice]

\* Invoke returns the conversion error; nothing is sent.
AdapterRejects ==
    /\ pc = "AdapterInvoked"
    /\ ChatRequest(args.request).err # NoErr
    /\ ret' = [sent |-> FALSE, chatReq |-> NoChatRequest, Messages |-> <<>>,
               err |-> ChatRequest(args.request).err]
    /\ pc' = "AdapterReturned"
    /\ UNCHANGED <<agent, runVars, args, mem>>

\* Invoke calls client.Chat.Completions.New with the prepared request.
AdapterSends ==
    /\ pc = "AdapterInvoked"
    /\ ChatRequest(args.request).err = NoErr
    /\ ret' = [sent |-> TRUE, chatReq |-> ChatRequest(args.request).chatReq,
               Messages |-> <<>>, err |-> NoErr]
    /\ pc' = "AdapterSent"
    /\ UNCHANGED <<agent, runVars, args, mem>>

\* The API answers; Invoke returns the failure or the converted response.
AdapterReturns ==
    /\ pc = "AdapterSent"
    /\ \E reply \in ApiReplies(ret.chatReq) :
          ret' = [ret EXCEPT
                    !.err = IF reply.err # NoErr
                            THEN Err("OpenAI API call failed", 0, reply.err.kind)
                            ELSE NoErr,
                    !.Messages = IF reply.err # NoErr THEN <<>> ELSE ConvertChoice(reply)]
    /\ pc' = "AdapterReturned"
    /\ UNCHANGED <<agent, runVars, args, mem>>

NextAdapter ==
    \/ AdapterRejects
    \/ AdapterSends
    \/ AdapterReturns

\* One invocation of the OpenAI adapter.
SpecAdapter == InitAdapter /\ [][NextAdapter]_vars

\* ---------------------------------------------------------------- C27
\* C27: given a request whose policy is Forced(name) where no tool of the
\* request's tool set is called name (an empty tool set included), the
\* transport fails and sends nothing; with policy Auto it sets no tool
\* choice and sends the request.
C27_UnavailableForcedToolFails ==
    pc \in {"AdapterSent", "AdapterReturned"} =>
        LET req == args.request
        IN  /\ (/\ req.ToolUsage.Type = "forced"
                /\ \A i \in 1..Len(req.Tools) : req.Tools[i].Name # req.ToolUsage.ToolName) =>
                   (~ret.sent /\ ret.err # NoErr)
            /\ req.ToolUsage = AutoToolSelection =>
                   (ret.sent /\ ret.chatReq.ToolChoice = NoToolChoice)

\* ------------------------------------------------------ Invoker.Invoke
\* A BaseFormatter as a tool value.
BaseFormatter(name) == ToolRec("BaseFormatter", name, "schema_" \o name, FALSE, "")

\* BaseFormatter.Run: ValidateInput unmarshals the arguments; on success the
\* arguments are echoed byte for byte.
BaseFormatterRun(a) ==
    IF ValidJSON(a) THEN RunOk(a) ELSE RunFail(Err("invalid JSON", 0, ""))

\* NewInvoker(llm, formatter), either of which may be nil.
NewInvoker(llmIsNil, formatter) == [llmIsNil |-> llmIsNil, formatter |-> formatter]
NewFormatterRequest(history) == [History |-> history]

\* Mutant of InvokerPick: the last tool call is taken.
InvokerPickLast(calls) == calls[Len(calls)]

\* toolCall := response.ToolCalls[0]
InvokerPick(calls) == calls[1]

\* The request Invoke builds for the model.
InvokerRequest(i, r) ==
    WithToolUsage(WithTools(NewLLMRequest(r.History), <<i.formatter>>),
                  ForceTool(i.formatter.Name))

\* What Invoke returns: the raw output and the error.
InvokerResult(out, err) == [out |-> out, err |-> err]

\* What Invoke makes of the model's reply.
InvokerOutcome(reply) ==
    IF reply.err # NoErr
    THEN InvokerResult("", Err("LLM invocation failed", 0, reply.err.kind))
    ELSE IF Len(reply.ToolCalls) > 0
         THEN LET run == BaseFormatterRun(InvokerPick(reply.ToolCalls).Args)
              IN  IF run.err # NoErr
                  THEN InvokerResult("", Err("formatter tool execution failed", 0, run.err.kind))
                  ELSE InvokerResult(run.out, NoErr)
         ELSE InvokerResult("", Err("no tool call found in response", 0, ""))

\* The replies of the model to the invoker: a failure, no call, one call, two.
InvokerCall(name, a) == ToolCallRec(1, name, a)
InvokerReplies(name) ==
    {[err |-> ModelFailure, ToolCalls |-> <<>>], [err |-> NoErr, ToolCalls |-> <<>>]}
    \cup {[err |-> NoErr, ToolCalls |-> <<InvokerCall(name, a)>>] :
             a \in {RightSp, Right, WrongSp, NotJSON}}
    \cup {[err |-> NoErr, ToolCalls |-> <<InvokerCall(name, a), InvokerCall(name, b)>>] :
             a, b \in {RightSp, NotJSON}}

InvokerHistories ==
    {<<>>, Question, Question \o <<AssistantMessage("answer"), NewUserMessage("as JSON")>>}
Invokers ==
    {NewInvoker(n, f) : n \in BOOLEAN,
                        f \in {NilTool, BaseFormatter("formatter"), BaseFormatter("person")}}

\* A caller is about to invoke an invoker on a formatter request.
InitInvoker ==
    /\ InitIdle
    /\ args \in {[invoker |-> i, request |-> NewFormatterRequest(h)] :
                    i \in Invokers, h \in InvokerHistories}
    /\ ret = NoArgs
    /\ mem = NoMem
    /\ pc = "InvokerInvoked"

\* Everything but the requests sent, the position and the function run.
quietVars == <<parked, agent, llm, cancelled, invokeVars, retryVars, sel, ctMsg, ctErr,
               dispatchNo, dispatchLog, cancelAt, wrapperVars>>

\* Invoke without a model or without a formatter.
InvokerRejects ==
    /\ pc = "InvokerInvoked"
    /\ args.invoker.llmIsNil \/ args.invoker.formatter = NilTool
    /\ ret' = InvokerResult("", IF args.invoker.llmIsNil
                                THEN Err("no LLM configured", 0, "")
                                ELSE Err("no formatter configured", 0, ""))
    /\ pc' = "InvokerReturned"
    /\ UNCHANGED <<quietVars, sent, replies, args, mem>>

\* i.llm.Invoke(ctx, req)
InvokerCallsModel ==
    /\ pc = "InvokerInvoked"
    /\ ~args.invoker.llmIsNil
    /\ args.invoker.formatter # NilTool
    /\ sent' = Append(sent, InvokerRequest(args.invoker, args.request))
    /\ \E reply \in InvokerReplies(args.invoker.formatter.Name) :
          replies' = Append(replies, reply)
    /\ pc' = "InvokerReplied"
    /\ UNCHANGED <<quietVars, callVars>>

\* Invoke runs the formatter on the first call and returns.
InvokerReturns ==
    /\ pc = "InvokerReplied"
    /\ ret' = InvokerOutcome(Last(replies))
    /\ pc' = "InvokerReturned"
    /\ UNCHANGED <<quietVars, sent, replies, args, mem>>

NextInvoker ==
    \/ InvokerRejects
    \/ InvokerCallsModel
    \/ InvokerReturns

\* One invocation of an invoker.
SpecInvoker == InitInvoker /\ [][NextInvoker]_vars

\* ---------------------------------------------------------------- C24
\* C24: Invoker.Invoke invokes the model exactly once, with the formatter
\* as the only tool and the policy Forced(formatter name); it then returns
\* the first tool call's arguments as the formatter echoes them, or fails
\* (model error, formatter error, no tool call); it never sends a second
\* request.
C24_OneForcedInvocation ==
    /\ Len(sent) <= 1
    /\ (pc = "InvokerReturned" /\ ~args.invoker.llmIsNil /\ args.invoker.formatter # NilTool) =>
          /\ Len(sent) = 1
          /\ sent[1].Tools = <<args.invoker.formatter>>
          /\ sent[1].ToolUsage = ForceTool(args.invoker.formatter.Name)
          /\ sent[1].History = args.request.History
          /\ LET reply == replies[1]
             IN  CASE reply.err # NoErr -> ret.err.kind = "LLM invocation failed"
                   [] reply.err = NoErr /\ reply.ToolCalls = <<>> ->
                         ret.err.kind = "no tool call found in response"
                   [] reply.err = NoErr /\ reply.ToolCalls # <<>>
                         /\ ~ValidJSON(reply.ToolCalls[1].Args) ->
                         ret.err.kind = "formatter tool execution failed"
                   [] OTHER -> ret = InvokerResult(reply.ToolCalls[1].Args, NoErr)

\* The model answered with two calls and the first one's arguments came
\* back.
C24_Witness ==
    /\ pc = "InvokerReturned"
    /\ Len(sent) = 1
    /\ Len(replies[1].ToolCalls) = 2
    /\ replies[1].ToolCalls[1].Args # replies[1].ToolCalls[2].Args
    /\ ret = InvokerResult(RightSp, NoErr)

\* ------------------------------------------- requests as Go objects
\* mem.objs holds the LLMRequest objects, a *LLMRequest being an index;
\* mem.arrs holds the backing arrays of slices.  A slice is a header
\* (array, len, cap); a nil slice has no array.
Slice(arr, len, cap) == [arr |-> arr, len |-> len, cap |-> cap]
NilSlice == Slice(0, 0, 0)

\* The elements visible through a slice.
SliceVal(m, s) == [i \in 1..s.len |-> m.arrs[s.arr][i]]

\* The built-in append(s, elems...): in place when the capacity allows,
\* else into a new array the elements are copied to.
GoAppend(m, s, elems) ==
    LET n == Len(elems)
        newcap == IF s.len + n > 2 * s.cap THEN s.len + n ELSE 2 * s.cap
    IN  IF n = 0 THEN [mem |-> m, slice |-> s]
        ELSE IF s.len + n <= s.cap
        THEN [mem |-> [m EXCEPT !.arrs[s.arr] =
                         [i \in 1..s.cap |-> IF i > s.len /\ i <= s.len + n
                                             THEN elems[i - s.len] ELSE @[i]]],
              slice |-> Slice(s.arr, s.len + n, s.cap)]
        ELSE [mem |-> [m EXCEPT !.arrs = Append(@,
                         [i \in 1..newcap |-> IF i <= s.len THEN m.arrs[s.arr][i]
                                              ELSE IF i <= s.len + n THEN elems[i - s.len]
                                              ELSE NilMessage])],
              slice |-> Slice(Len(m.arrs) + 1, s.len + n, newcap)]

RECURSIVE AppendEach(_, _, _)
\* The elements appended one call of append at a time (AddMessage,
\* AddToolCall, NewHistory).
AppendEach(m, s, elems) ==
    IF elems = <<>> THEN [mem |-> m, slice |-> s]
    ELSE LET a == GoAppend(m, s, <<Head(elems)>>)
         IN  AppendEach(a.mem, a.slice, Tail(elems))

\* An LLMRequest object.
RequestObj(system, history, tools, toolUsage, maxTokens, temperature) ==
    [System |-> system, History |-> history, Tools |-> tools, ToolUsage |-> toolUsage,
     MaxCompletionTokens |-> maxTokens, Temperature |-> temperature]

\* The object at p is written, allocated if p is new.
StoreObj(m, p, o) ==
    IF p > Len(m.objs) THEN [m EXCEPT !.objs = Append(@, o)]
    ELSE [m EXCEPT !.objs[p] = o]

\* A request option as a value: its constructor and its argument.
Opt(op, v) == [op |-> op, v |-> v]

\* The option applied to the request at p.
ApplyOpt(m, p, o) ==
    CASE o.op = "WithTools" ->
            LET a == GoAppend(m, m.objs[p].Tools, o.v)
            IN  [a.mem EXCEPT !.objs[p].Tools = a.slice]
      [] o.op = "WithToolUsage" -> [m EXCEPT !.objs[p].ToolUsage = o.v]
      [] o.op = "WithSystem" -> [m EXCEPT !.objs[p].System = o.v]
      [] o.op = "WithHistory" -> [m EXCEPT !.objs[p].History = o.v]
      [] o.op = "WithMaxCompletionTokens" -> [m EXCEPT !.objs[p].MaxCompletionTokens = o.v]
      [] o.op = "WithTemperature" -> [m EXCEPT !.objs[p].Temperature = o.v]

RECURSIVE ApplyOpts(_, _, _)
\* for _, opt := range opts { opt(req) }
ApplyOpts(m, p, opts) ==
    IF opts = <<>> THEN m ELSE ApplyOpts(ApplyOpt(m, p, Head(opts)), p, Tail(opts))

\* Mutant of ClonePtr: the clone is the original.
ClonePtrSame(m, p) == p

\* req := &LLMRequest{...}: a new object.
ClonePtr(m, p) == Len(m.objs) + 1

\* r.Clone(opts...) for the request at p: the memory after it and the clone.
CloneAt(m, p, opts) ==
    LET q == ClonePtr(m, p)
    IN  [mem |-> ApplyOpts(StoreObj(m, q, m.objs[p]), q, opts), ptr |-> q]

\* NewLLMRequest(history, opts...)
NewLLMRequestAt(m, history, opts) ==
    LET q == Len(m.objs) + 1
        o == RequestObj("", history, NilSlice, AutoToolSelection, 0, 0)
    IN  [mem |-> ApplyOpts(StoreObj(m, q, o), q, opts), ptr |-> q]

\* What a holder of the request at p can read: its fields, and the elements
\* of its slices.
FieldValues(m, p) ==
    [obj |-> m.objs[p],
     history |-> SliceVal(m, m.objs[p].History),
     tools |-> SliceVal(m, m.objs[p].Tools)]

\* The caller's memory before the call: one request whose History holds the
\* question in an array with or without spare capacity, and whose Tools are
\* nil or hold one tool, with or without spare capacity.
CallerMemories ==
    {[objs |-> <<RequestObj("system", Slice(1, 1, hc), ts, tu, 1000, 7)>>,
      arrs |-> <<[i \in 1..hc |-> IF i = 1 THEN Question[1] ELSE NilMessage]>>
               \o (IF ts = NilSlice THEN <<>>
                   ELSE <<[i \in 1..ts.cap |-> IF i = 1 THEN OkTool("extra") ELSE NilTool]>>)] :
        hc \in {1, 3}, ts \in {NilSlice, Slice(2, 1, 1), Slice(2, 1, 2)},
        tu \in {AutoToolSelection, ForceTool("extra")}}

\* The overrides a caller passes to Clone.
CloneOptions ==
    {Opt("WithTools", <<OkTool("weather")>>),
     Opt("WithTools", <<OkTool("weather"), OkTool("calculator")>>),
     Opt("WithToolUsage", ForceTool("weather")),
     Opt("WithSystem", "other"),
     Opt("WithHistory", NilSlice),
     Opt("WithMaxCompletionTokens", 5),
     Opt("WithTemperature", 1)}
CloneOptionLists == UNION {[1..k -> CloneOptions] : k \in 0..2}

\* The locals of Invoke: its request parameter, the clone, the response's
\* Messages, the position in the tool calls, the turn, the correction
\* round-trips made and the error returned.
MemLocals(requestPtr, req, messages, i, turn, corrections, err) ==
    [request |-> requestPtr, req |-> req, response |-> messages, idx |-> i, turn |-> turn,
     corrections |-> corrections, err |-> err]

\* A caller holds a request and is about to clone it, or to invoke an agent
\* on it.
InitMemory ==
    /\ InitRest
    /\ agent \in {NewAgent(<<>>), NewAgent(<<OkTool("calculator")>>)}
    /\ mem \in CallerMemories
    /\ args = [request |-> 1, before |-> FieldValues(mem, 1), arrs |-> mem.arrs, opts |-> <<>>]
    /\ ret = MemLocals(1, 0, NilSlice, 0, 1, 0, NoErr)
    /\ pc \in {"CloneCalled", "InvokeCalled"}

\* clone := request.Clone(opts...)
CloneCall ==
    /\ pc = "CloneCalled"
    /\ \E opts \in CloneOptionLists :
          LET c == CloneAt(mem, args.request, opts)
          IN  /\ mem' = c.mem
              /\ ret' = [ret EXCEPT !.req = c.ptr]
              /\ args' = [args EXCEPT !.opts = opts]
    /\ pc' = "CloneReturned"
    /\ UNCHANGED <<agent, runVars>>

\* The replies of the model to a main-loop request.
MemCall(n) == NewToolCallMessage(ToolCallRec(n, "calculator", Wrong))
MemReplies(turn) ==
    {ReplyErr(ModelFailure), Reply(<<AssistantMessage("done")>>)}
    \cup (IF turn < MaxTurns
          THEN {Reply(<<MemCall(1)>>), Reply(<<AssistantMessage("let me see"), MemCall(1), MemCall(2)>>)}
          ELSE {})

\* Invoke clones its request, calls the model, and returns the failure or a
\* response without tool calls.
InvokeCallsModel ==
    /\ pc = "InvokeCalled"
    /\ \E reply \in MemReplies(ret.turn) :
          LET c == CloneAt(mem, ret.request,
                           <<Opt("WithTools", agent.tools),
                             Opt("WithToolUsage", AutoToolSelection)>>)
              r == AppendEach(c.mem, NilSlice, reply.Messages)
          IN  IF reply.err # NoErr
              THEN /\ mem' = c.mem
                   /\ ret' = [ret EXCEPT !.req = c.ptr, !.err = reply.err]
                   /\ pc' = "InvokeReturned"
              ELSE /\ mem' = r.mem
                   /\ ret' = [ret EXCEPT !.req = c.ptr, !.response = r.slice, !.idx = 1]
                   /\ pc' = IF ToolCalls(reply.Messages) = <<>>
                            THEN "InvokeReturned" ELSE "InvokeDispatching"
    /\ UNCHANGED <<agent, runVars, args>>

\* The memory after one correction round-trip: correctToolCall builds the
\* retry request over a new history, the wrapper its forced request.
CorrectionAt(m, tc, tool) ==
    LET h == AppendEach(m, NilSlice, <<CorrectionPrompt(tc, Err("invalid arguments", 0, ""))>>)
        retryRequest == NewLLMRequestAt(h.mem, h.slice, <<>>)
        forcedRequest ==
            NewLLMRequestAt(retryRequest.mem, retryRequest.mem.objs[retryRequest.ptr].History,
                            <<Opt("WithTools", <<FormatterTool(tool.Schema)>>),
                              Opt("WithToolUsage", ForceTool("formatter"))>>)
    IN  forcedRequest.mem

RECURSIVE CorrectionsAt(_, _, _, _)
CorrectionsAt(m, tc, tool, k) ==
    IF k = 0 THEN m ELSE CorrectionsAt(CorrectionAt(m, tc, tool), tc, tool, k - 1)

\* CallTool on the next tool call, with its correction round-trips, and
\* response.AddMessage of the result or of the error.
InvokeDispatches ==
    /\ pc = "InvokeDispatching"
    /\ LET calls == ToolCalls(SliceVal(mem, ret.response))
           tc == calls[ret.idx]
           i == FindToolIdx(agent.tools, tc.Name)
       IN  /\ \E k \in 0..MaxRetries, ok \in BOOLEAN :
                 /\ i = 0 => (k = 0 /\ ~ok)
                 /\ LET m1 == IF i = 0 THEN mem ELSE CorrectionsAt(mem, tc, agent.tools[i], k)
                        msg == IF ok THEN NewToolResultMessage(tc, "success")
                               ELSE IF i = 0
                               THEN NewToolResultErrorMessage(tc, ToolNotFound(tc.Name))
                               ELSE NewToolResultErrorMessage(tc,
                                       RetryExhausted(agent.maxRetries,
                                                      Err("invalid arguments", 0, "")))
                        a == GoAppend(m1, ret.response, <<msg>>)
                    IN  /\ mem' = a.mem
                        /\ ret' = [ret EXCEPT !.response = a.slice, !.idx = @ + 1,
                                              !.corrections = @ + k]
           /\ pc' = IF ret.idx = Len(calls) THEN "InvokeRecursing" ELSE "InvokeDispatching"
    /\ UNCHANGED <<agent, runVars, args>>

\* return a.Invoke(ctx, NewLLMRequest(append(request.History, response.Messages...)))
InvokeRecurses ==
    /\ pc = "InvokeRecursing"
    /\ LET a == GoAppend(mem, mem.objs[ret.request].History, SliceVal(mem, ret.response))
           r == NewLLMRequestAt(a.mem, a.slice, <<>>)
       IN  /\ mem' = r.mem
           /\ ret' = [ret EXCEPT !.request = r.ptr, !.req = 0, !.response = NilSlice,
                                 !.idx = 0, !.turn = @ + 1]
    /\ pc' = "InvokeCalled"
    /\ UNCHANGED <<agent, runVars, args>>

NextMemory ==
    \/ CloneCall
    \/ InvokeCallsModel
    \/ InvokeDispatches
    \/ InvokeRecurses

\* Clone, and a run of Agent.Invoke, over the caller's memory.
SpecMemory == InitMemory /\ [][NextMemory]_vars

\* ---------------------------------------------------------------- C21
\* C21: Clone with any overrides returns a new request and leaves every
\* field of the original unchanged; the caller's request has the same field
\* values after Agent.Invoke returns, and at every step of the run, as
\* before the call, whether the run succeeds or fails and whatever
\* corrections it makes.
C21_CallerRequestUnchanged ==
    /\ FieldValues(mem, args.request) = args.before
    /\ pc = "CloneReturned" => ret.req # args.request
    /\ pc \in {"InvokeDispatching", "InvokeRecursing", "InvokeReturned"} =>
          ret.req # args.request

\* A run with a correction returned after a second turn, and the array
\* behind the caller's History was written to past the caller's length.
C21_Witness ==
    /\ pc = "InvokeReturned"
    /\ ret.turn > 1
    /\ ret.corrections > 0
    /\ ret.err = NoErr
    /\ mem.arrs[1] # args.arrs[1]
    /\ args.before.obj.ToolUsage = ForceTool("extra")

\* ------------------------------------- two runs of the same agent
\* The state of a run, Agent.Invoke's locals and its history.
Locals ==
    [cancelled |-> cancelled, callerRequest |-> callerRequest, request |-> request,
     response |-> response, toolCalls |-> toolCalls, idx |-> idx, pc |-> pc,
     result |-> result, targetTool |-> targetTool, currentToolCall |-> currentToolCall,
     attempt |-> attempt, delay |-> delay, lastErr |-> lastErr, sel |-> sel,
     ctMsg |-> ctMsg, ctErr |-> ctErr, sent |-> sent, replies |-> replies,
     emitted |-> emitted, used |-> used, dispatchNo |-> dispatchNo, execs |-> execs,
     corrs |-> corrs, waits |-> waits, toolRuns |-> toolRuns, dlog |-> dlog,
     cancelAt |-> cancelAt]

\* A run about to begin: the caller is about to call Agent.Invoke(ctx, r).
StartLocals(r) ==
    [cancelled |-> FALSE, callerRequest |-> r, request |-> r, response |-> <<>>,
     toolCalls |-> <<>>, idx |-> 0, pc |-> "AwaitingModel", result |-> NoResult,
     targetTool |-> NilTool, currentToolCall |-> NoToolCall, attempt |-> 0, delay |-> 0,
     lastErr |-> NoErr, sel |-> "none", ctMsg |-> NilMessage, ctErr |-> NoErr,
     sent |-> <<>>, replies |-> <<>>, emitted |-> <<>>, used |-> 0, dispatchNo |-> 0,
     execs |-> <<>>, corrs |-> <<>>, waits |-> <<>>, toolRuns |-> 0, dlog |-> <<>>,
     cancelAt |-> NoCancelAt]

\* The run that has the processor is in state L.
Holds(L) ==
    /\ cancelled = L.cancelled
    /\ callerRequest = L.callerRequest
    /\ request = L.request
    /\ response = L.response
    /\ toolCalls = L.toolCalls
    /\ idx = L.idx
    /\ pc = L.pc
    /\ result = L.result
    /\ targetTool = L.targetTool
    /\ currentToolCall = L.currentToolCall
    /\ attempt = L.attempt
    /\ delay = L.delay
    /\ lastErr = L.lastErr
    /\ sel = L.sel
    /\ ctMsg = L.ctMsg
    /\ ctErr = L.ctErr
    /\ sent = L.sent
    /\ replies = L.replies
    /\ emitted = L.emitted
    /\ used = L.used
    /\ dispatchNo = L.dispatchNo
    /\ execs = L.execs
    /\ corrs = L.corrs
    /\ waits = L.waits
    /\ toolRuns = L.toolRuns
    /\ dlog = L.dlog
    /\ cancelAt = L.cancelAt

\* The run in state L gets the processor.
Resume(L) ==
    /\ cancelled' = L.cancelled
    /\ callerRequest' = L.callerRequest
    /\ request' = L.request
    /\ response' = L.response
    /\ toolCalls' = L.toolCalls
    /\ idx' = L.idx
    /\ pc' = L.pc
    /\ result' = L.result
    /\ targetTool' = L.targetTool
    /\ currentToolCall' = L.currentToolCall
    /\ attempt' = L.attempt
    /\ delay' = L.delay
    /\ lastErr' = L.lastErr
    /\ sel' = L.sel
    /\ ctMsg' = L.ctMsg
    /\ ctErr' = L.ctErr
    /\ sent' = L.sent
    /\ replies' = L.replies
    /\ emitted' = L.emitted
    /\ used' = L.used
    /\ dispatchNo' = L.dispatchNo
    /\ execs' = L.execs
    /\ corrs' = L.corrs
    /\ waits' = L.waits
    /\ toolRuns' = L.toolRuns
    /\ dlog' = L.dlog
    /\ cancelAt' = L.cancelAt

\* The requests of the two callers.
OtherQuestion == <<NewUserMessage("other question")>>
ConcurrentRequests ==
    <<NewLLMRequest(Question),
      WithTemperature(WithMaxCompletionTokens(WithSystem(WithToolUsage(WithTools(
         NewLLMRequest(OtherQuestion), <<OkTool("extra")>>), ForceTool("extra")),
         "system"), 1000), 7)>>

\* A deterministic transport.  To a main-loop request after the first
\* question it answers with one tool call a turn, then a text; after the
\* other question with a text and two calls, one of a tool that does not
\* exist, then it fails.
DetMain(req) ==
    LET n == Len(ToolCalls(req.History))
    IN  IF req.History[1] = Question[1]
        THEN IF n < MaxToolCalls
             THEN Reply(CallsOf(n, <<<<"test_tool", WrongSp>>>>))
             ELSE Reply(<<AssistantMessage("text")>>)
        ELSE IF n = 0
             THEN Reply(<<AssistantMessage("text")>>
                        \o CallsOf(n, <<<<"ghost", WrongSp>>, <<"test_tool", WrongSp>>>>))
             ELSE ReplyErr(ModelFailure)

\* To the forced request of a correction it answers with a call of the
\* formatter when the prompt shows the arguments the main model gave, and
\* fails on any other prompt.
DetCorrection(req) ==
    IF req.History[1] = CorrectionPrompt(ToolCallRec(0, "test_tool", WrongSp),
                                         Err("invalid arguments", 0, ""))
    THEN Reply(<<FormatterCall(RightSp)>>)
    ELSE ReplyErr(ModelFailure)

DetReply(req) == IF req.ToolUsage.Type = "auto" THEN DetMain(req) ELSE DetCorrection(req)

\* The transport's reply of this step, if it was called, is the one the
\* deterministic transport gives.
Deterministic == Len(replies') > Len(replies) => Last(replies') = DetReply(Last(sent'))

\* Two callers are about to run Agent.Invoke on the same agent, each with
\* its own request; one of them has the processor.
InitConcurrent ==
    /\ \E n \in 0..MaxRetries,
          t \in {AlwaysFailTool("test_tool"), StrictTool("test_tool", Right),
                 OkTool("test_tool")} :
          agent = WithMaxRetries(NewAgent(<<t>>), n)
    /\ llm = [corrections |-> OracleShort, isNil |-> FALSE]
    /\ NoWrapperRun
    /\ args = [agent |-> agent, llm |-> llm, requests |-> ConcurrentRequests]
    /\ ret = NoArgs
    /\ mem = NoMem
    /\ \E first \in {1, 2} :
          /\ Holds(StartLocals(ConcurrentRequests[first]))
          /\ parked = [who |-> 3 - first, interleaved |-> FALSE,
                       locals |-> StartLocals(ConcurrentRequests[3 - first])]

\* The run in state L has returned.
Finished(L) == L.pc \in {"Done", "Failed"}

\* The scheduler takes the processor from the running run and gives it to
\* the other one, which has not returned.
Switch ==
    /\ ~Finished(parked.locals)
    /\ parked' = [who |-> 3 - parked.who,
                  interleaved |-> parked.interleaved \/ (sent # <<>> /\ ~Finished(Locals)),
                  locals |-> Locals]
    /\ Resume(parked.locals)
    /\ UNCHANGED <<agent, llm, wrapperVars, callVars>>

\* The steps of the running run, over a deterministic transport and
\* contexts that are not cancelled.
NextConcurrent ==
    \/ ModelFails /\ Deterministic
    \/ ModelResponds /\ Deterministic
    \/ CallTool
    \/ ExecuteAttempt
    \/ Correct /\ Deterministic
    \/ WaitElapsed
    \/ AddResult
    \/ Recurse
    \/ Switch

\* Two runs of Agent.Invoke on one agent, interleaved in any order.
SpecConcurrent == InitConcurrent /\ [][NextConcurrent]_vars

\* The state of run i.
RunLocals(i) == IF parked.who = i THEN parked.locals ELSE Locals

\* What a run returns and sends when it runs alone: Agent.Invoke as a
\* function of the agent and the request over the deterministic transport.
Alone(sentSoFar, res) == [sent |-> sentSoFar, result |-> res]
Dispatched(message, err, sentSoFar) == [msg |-> message, err |-> err, sent |-> sentSoFar]

RECURSIVE RetryAlone(_, _, _, _, _, _)
\* executeToolWithRetry from attempt n on.
RetryAlone(a, tc, tool, n, err, s) ==
    IF ~LoopCondition(a, n)
    THEN Dispatched(NilMessage, RetryExhausted(a.maxRetries, err), s)
    ELSE LET r == ExecuteToolAttempt(tc, tool)
             f == FormatterTool(tool.Schema)
             req == ForcedRequest(f, CorrectionRequest(tc, r.err))
         IN  IF r.err = NoErr THEN Dispatched(r.msg, NoErr, s)
             ELSE IF n = a.maxRetries
             THEN Dispatched(NilMessage, RetryExhausted(a.maxRetries, r.err), s)
             ELSE RetryAlone(a, HandleToolFailure(tc, WrapperInvoke(f, DetReply(req))),
                             tool, n + 1, r.err, Append(s, req))

\* CallTool
CallToolAlone(a, tc, s) ==
    LET i == FindToolIdx(a.tools, tc.Name)
    IN  IF i = 0 THEN Dispatched(NilMessage, ToolNotFound(tc.Name), s)
        ELSE RetryAlone(a, tc, a.tools[i], 0, NoErr, s)

RECURSIVE DispatchAlone(_, _, _, _, _)
\* The range loop of Invoke from the i-th tool call on: the response's
\* messages and the requests sent.
DispatchAlone(a, tcs, i, msgs, s) ==
    IF i > Len(tcs) THEN [Messages |-> msgs, sent |-> s]
    ELSE LET c == CallToolAlone(a, tcs[i], s)
         IN  DispatchAlone(a, tcs, i + 1,
                           AddMessage(msgs, ResultMessage(tcs[i], c.msg, c.err)), c.sent)

RECURSIVE InvokeAlone(_, _, _)
\* Agent.Invoke
InvokeAlone(a, r, s) ==
    LET req == AgentRequest(a, r)
        reply == DetReply(req)
        tcs == ToolCalls(reply.Messages)
        d == DispatchAlone(a, tcs, 1, reply.Messages, Append(s, req))
    IN  IF reply.err # NoErr THEN Alone(Append(s, req), Returned(TRUE, <<>>, reply.err))
        ELSE IF ~HasToolCalls(tcs)
        THEN Alone(Append(s, req), Returned(FALSE, reply.Messages, NoErr))
        ELSE InvokeAlone(a, NextRequest(r, d.Messages), d.sent)

\* ---------------------------------------------------------------- C26
\* C26: Agent.Invoke never changes the agent's model, toolbox or retry
\* configuration; of two runs of one agent on distinct requests,
\* interleaved in any order over a deterministic transport and
\* deterministic tools, each sends the requests it sends when run alone,
\* in the same order, and returns the same result.
C26_RunsAreIndependent ==
    /\ agent = args.agent
    /\ llm = args.llm
    /\ \A i \in {1, 2} :
          LET L == RunLocals(i)
              alone == InvokeAlone(args.agent, args.requests[i], <<>>)
          IN  /\ IsPrefix(L.sent, alone.sent)
              /\ Finished(L) => (L.sent = alone.sent /\ L.result = alone.result)

\* Both runs have returned, different results, after one was taken off the
\* processor in the middle of its run, and a correction round-trip was made.
C26_Witness ==
    /\ Finished(Locals)
    /\ Finished(parked.locals)
    /\ parked.interleaved
    /\ Locals.result # parked.locals.result
    /\ \E i \in 1..Len(sent) : sent[i].ToolUsage.Type = "forced"

\* --------------------------------------- a dispatch of a GenericTool
\* A caller is about to run Agent.CallTool on a call of a GenericTool, with
\* arguments that are no JSON, that the runner refuses, or that it accepts.
InitGenericTool ==
    /\ InitCommon
    /\ \E n \in 0..MaxRetriesDispatch,
          t \in {GenericTool("test_tool", Right), GenericTool("test_tool", "never")},
          d \in {0, 100} :
          agent = WithRetryDelay(WithMaxRetries(NewAgent(<<t>>), n), d)
    /\ llm = [corrections |-> OracleAny, isNil |-> FALSE]
    /\ NoWrapperRun
    /\ NoCall
    /\ callerRequest = NewLLMRequest(<<>>)
    /\ request = callerRequest
    /\ \E a \in {NotJSON, WrongSp, RightSp} :
          response = CallsOf(0, <<<<"test_tool", a>>>>)
    /\ toolCalls = ToolCalls(response)
    /\ idx = 1
    /\ emitted = response
    /\ used = 1
    /\ pc = "Dispatching"

\* One dispatch of a call of a GenericTool.
SpecGenericTool == InitGenericTool /\ [][NextCallTool]_vars

\* ---------------------------------------------------------------- C31
\* C31: when the retries are exhausted, the error of the dispatch carries
\* the error of the last execution attempt, the (maxRetries+1)-th: not the
\* error of an earlier attempt and not the error of a failed correction
\* round-trip.
C31_ExhaustedCarriesLastError ==
    (pc = "CallToolReturned" /\ IsRetryExhausted(ctErr)) =>
        /\ Len(execs) = agent.maxRetries + 1
        /\ ctErr = RetryExhausted(agent.maxRetries, ToolRun(targetTool, Last(execs)).err)
        /\ ctMsg = NilMessage

\* The retries are exhausted after a first attempt that failed to unmarshal
\* its arguments, a correction that failed, and a last attempt the runner
\* refused.
C31_Witness ==
    /\ pc = "CallToolReturned" /\ IsRetryExhausted(ctErr)
    /\ Len(execs) = 3
    /\ ToolRun(targetTool, execs[1]).err.kind = "failed to unmarshal input"
    /\ ToolRun(targetTool, execs[3]).err.kind = "tool execution failed"
    /\ CorrectionOf(1).err # NoErr
    /\ ctErr.cause = "tool execution failed"

\* ---------------------------------------------------------------- C32
\* C32: every correction round-trip is sent to the agent's underlying
\* model as a request whose history is exactly one user-role message
\* stating the tool name, the error text of the attempt that just failed
\* and the arguments of that attempt, whose only tool is a formatter with
\* the failing tool's input schema, and whose policy is Forced(that
\* formatter); the dispatch sends the model nothing else.
C32_CorrectionRequestShape ==
    InDispatch =>
        /\ sent = [k \in 1..Len(corrs) |-> corrs[k].req]
        /\ \A k \in 1..Len(corrs) :
              LET req == corrs[k].req
              IN  /\ Len(req.History) = 1
                  /\ Role(req.History[1]) = "user"
                  /\ Kind(req.History[1]) = "text"
                  /\ req.History[1].Content =
                        "correct:" \o DispatchedCall.Name \o ":"
                        \o ToolRun(DispatchedTool, execs[k]).err.kind \o ":"
                        \o PrettyJSON(execs[k])
                  /\ Len(req.Tools) = 1
                  /\ req.Tools[1].type = "formatter"
                  /\ req.Tools[1].Schema = DispatchedTool.Schema
                  /\ req.ToolUsage = ForceTool(req.Tools[1].Name)
                  /\ req.System = ""

\* Two corrections were asked for, after failures with different error
\* texts and different arguments.
C32_Witness ==
    /\ InDispatch
    /\ Len(corrs) = 2
    /\ execs[1] = NotJSON /\ execs[2] = Wrong
    /\ corrs[1].req.History[1].Content # corrs[2].req.History[1].Content
    /\ ToolRun(DispatchedTool, execs[1]).err # ToolRun(DispatchedTool, execs[2]).err

\* ---------------------------------------------------------------- C33
\* The messages of the correction exchanges so far: the prompts, the
\* model's replies to them, and what the wrapper made of the replies.
CorrectionMessages ==
    UNION {Range(sent[i].History) \cup Range(replies[i].Messages)
           \cup Range(WrapperInvoke(sent[i].Tools[1], replies[i]).Messages) :
              i \in {j \in 1..Len(sent) : sent[j].ToolUsage.Type = "forced"}}

\* C33: no message of a correction exchange, prompt or reply, is in a
\* history the main loop sends to the model, in a turn's messages or in
\* the response Agent.Invoke returns; a dispatch adds exactly one message
\* to the conversation however many corrections it made.
C33_CorrectionsStayOutOfConversation ==
    /\ \A t \in 1..Turn : Range(MainSent(t).History) \cap CorrectionMessages = {}
    /\ Range(response) \cap CorrectionMessages = {}
    /\ Range(emitted) \cap CorrectionMessages = {}
    /\ Range(result.Messages) \cap CorrectionMessages = {}
    /\ \A t \in 1..(Turn - 1) :
          Len(MainSent(t + 1).History) =
              Len(MainSent(t).History) + Len(MainReply(t).Messages)
              + Len(ToolCalls(MainReply(t).Messages))
    /\ pc \in {"Dispatching", "Attempt", "Correcting", "Backoff"} =>
          Len(response) = Len(MainReply(Turn).Messages) + Len(DispatchesOf(Turn))

\* A run returned after a turn in which a dispatch made a correction.
C33_Witness ==
    /\ pc = "Done"
    /\ Turn = 2
    /\ CorrectionMessages # {}
    /\ \E i \in 1..Len(dlog) : dlog[i].err = NoErr /\ dlog[i].msg.ToolCall.Args = Right
    /\ Len(MainSent(2).History) = 3

\* ---------------------------------------- tool calls as Go objects
\* mem.objs holds the ToolCall objects, a *ToolCall being an index; the
\* messages of a response hold pointers.

\* Mutant of UpdateToolCallArgsAt: the arguments of the call are replaced
\* in place.
UpdateToolCallArgsInPlace(m, p, newArgs) ==
    [mem |-> [m EXCEPT !.objs[p].Args = newArgs], ptr |-> p]

\* Agent.updateToolCallArgs: a new ToolCall with the id and the name of
\* the one at p.
UpdateToolCallArgsAt(m, p, newArgs) ==
    [mem |-> [m EXCEPT !.objs = Append(@, UpdateToolCallArgs(m.objs[p], newArgs))],
     ptr |-> Len(m.objs) + 1]

\* The locals of Invoke and of executeToolWithRetry: the response's
\* messages, the position of the range loop, toolCall, currentToolCall,
\* attempt, lastErr, and the history of the next request.
CallLocals(messages, i, toolCall, current, n, err, history) ==
    [response |-> messages, idx |-> i, toolCall |-> toolCall, current |-> current,
     attempt |-> n, lastErr |-> err, history |-> history]

\* The transport has replied with one or two tool calls; Invoke is about
\* to dispatch them.
InitToolCalls ==
    /\ InitRest
    /\ \E n \in 0..MaxRetriesDispatch,
          t \in {AlwaysFailTool("test_tool"), StrictTool("test_tool", Right),
                 OkTool("test_tool")} :
          agent = WithMaxRetries(NewAgent(<<t>>), n)
    /\ \E as \in {<<WrongSp>>, <<RightSp>>, <<WrongSp, WrongSp>>, <<WrongSp, RightSp>>} :
          mem = [objs |-> [i \in 1..Len(as) |->
                             ToolCallRec(i, IF i = 2 THEN "ghost" ELSE "test_tool", as[i])],
                 arrs |-> <<>>]
    /\ args = [emitted |-> mem.objs]
    /\ ret = CallLocals([i \in 1..Len(mem.objs) |-> NewToolCallMessage(i)], 1, 0, 0, 0,
                        NoErr, <<>>)
    /\ pc = "CallsDispatching"

\* CallTool returns to Invoke, which adds the message and moves on.
CallReturns(message, err) ==
    /\ ret' = [ret EXCEPT !.response = AddMessage(@, ResultMessage(ret.toolCall, message, err)),
                          !.idx = @ + 1]
    /\ pc' = "CallsDispatching"

\* CallTool and executeToolWithRetry up to its loop.
CallStarts ==
    /\ pc = "CallsDispatching"
    /\ ret.idx <= Len(ToolCalls(ret.response))
    /\ LET p == ToolCalls(ret.response)[ret.idx]
           i == FindToolIdx(agent.tools, mem.objs[p].Name)
       IN  IF i = 0
           THEN /\ ret' = [ret EXCEPT !.response = AddMessage(@,
                              NewToolResultErrorMessage(p, ToolNotFound(mem.objs[p].Name))),
                                      !.idx = @ + 1]
                /\ pc' = pc
           ELSE /\ ret' = [ret EXCEPT !.toolCall = p, !.current = p, !.attempt = 0,
                                      !.lastErr = NoErr]
                /\ pc' = "CallAttempt"
    /\ UNCHANGED <<agent, runVars, args, mem>>

\* One execution attempt with the arguments of currentToolCall.
CallAttempt ==
    /\ pc = "CallAttempt"
    /\ LET p == ret.current
           tool == agent.tools[FindToolIdx(agent.tools, mem.objs[p].Name)]
           r == ToolRun(tool, mem.objs[p].Args)
       IN  IF r.err = NoErr THEN CallReturns(NewToolResultMessage(p, r.out), NoErr)
           ELSE IF ret.attempt = agent.maxRetries
           THEN CallReturns(NilMessage, RetryExhausted(agent.maxRetries, r.err))
           ELSE /\ ret' = [ret EXCEPT !.lastErr = r.err]
                /\ pc' = "CallCorrecting"
    /\ UNCHANGED <<agent, runVars, args, mem>>

\* handleToolFailure, and the wait before the next attempt.
CallCorrects ==
    /\ pc = "CallCorrecting"
    /\ \E reply \in OracleAny :
          LET p == ret.current
              tool == agent.tools[FindToolIdx(agent.tools, mem.objs[p].Name)]
              c == CorrectToolCall(WrapperInvoke(FormatterTool(tool.Schema), reply))
              u == UpdateToolCallArgsAt(mem, p, c.args)
          IN  IF c.err # NoErr
              THEN /\ mem' = mem
                   /\ ret' = [ret EXCEPT !.attempt = @ + 1]
              ELSE /\ mem' = u.mem
                   /\ ret' = [ret EXCEPT !.attempt = @ + 1, !.current = u.ptr]
    /\ pc' = "CallAttempt"
    /\ UNCHANGED <<agent, runVars, args>>

\* The history of the recursive call takes the response's messages.
CallsRecurse ==
    /\ pc = "CallsDispatching"
    /\ ret.idx > Len(ToolCalls(ret.response))
    /\ ret' = [ret EXCEPT !.history = ret.response]
    /\ pc' = "CallsDispatched"
    /\ UNCHANGED <<agent, runVars, args, mem>>

NextToolCalls ==
    \/ CallStarts
    \/ CallAttempt
    \/ CallCorrects
    \/ CallsRecurse

\* The dispatches of one turn, over ToolCall objects.
SpecToolCalls == InitToolCalls /\ [][NextToolCalls]_vars

\* ---------------------------------------------------------------- C34
\* C34: retries never change the tool call the model emitted: during and
\* after a dispatch with any number of corrections, the ToolCallMessage in
\* the turn's messages, and in the next turn's history, carries the id,
\* the name and the arguments the model gave.
C34_EmittedCallUnchanged ==
    /\ \A k \in 1..Len(args.emitted) :
          /\ Kind(ret.response[k]) = "tool_call"
          /\ mem.objs[ret.response[k].ToolCall] = args.emitted[k]
    /\ pc = "CallsDispatched" =>
          \A k \in 1..Len(args.emitted) :
              /\ Kind(ret.history[k]) = "tool_call"
              /\ mem.objs[ret.history[k].ToolCall] = args.emitted[k]

\* The turn is over; a correction replaced the arguments of the first
\* call, and its result message refers to the corrected call.
C34_Witness ==
    /\ pc = "CallsDispatched"
    /\ Len(mem.objs) > Len(args.emitted)
    /\ \E k \in 1..Len(ret.history) :
          /\ Kind(ret.history[k]) = "tool_result"
          /\ ret.history[k].Result.errText = NoErr
          /\ mem.objs[ret.history[k].ToolCall].ID = 1
          /\ mem.objs[ret.history[k].ToolCall].Args = Right
    /\ args.emitted[1].Args = WrongSp

\* ---------------------------------------------------------------- C35
RECURSIVE Pow(_, _)
Pow(b, n) == IF n = 0 THEN 1 ELSE b * Pow(b, n - 1)

\* Every execution attempt after the first follows exactly one wait, and
\* none precedes the first.
OneWaitPerRetry ==
    /\ Len(waits) <= Len(execs)
    /\ Len(execs) <= Len(waits) + 1
    /\ pc = "Attempt" => Len(execs) = Len(waits)
    /\ pc \in {"Correcting", "Backoff"} => Len(execs) = Len(waits) + 1

\* C35: in one dispatch the k-th backoff wait lasts initialDelay x
\* backoffMultiplier^(k-1), the delay being multiplied by the factor once
\* per completed wait; every execution attempt after the first is preceded
\* by exactly one wait and none precedes the first.
C35_GeometricWaits ==
    InDispatch =>
        /\ \A k \in 1..Len(waits) :
              waits[k] * Pow(agent.retryBackoff.den, k - 1)
                  = agent.retryDelay * Pow(agent.retryBackoff.num, k - 1)
        /\ OneWaitPerRetry

\* C35 (as the code has it): the first wait lasts initialDelay and every
\* later wait lasts the wait before it times the factor, cut down to a
\* whole number of nanoseconds; the delay is scaled once per completed
\* wait; every execution attempt after the first is preceded by exactly
\* one wait and none precedes the first.
C35_TruncatedGeometricWaits ==
    (InDispatch /\ ToolPresent) =>
        /\ Len(waits) > 0 => waits[1] = agent.retryDelay
        /\ \A k \in 1..(Len(waits) - 1) :
              /\ waits[k + 1] * agent.retryBackoff.den <= waits[k] * agent.retryBackoff.num
              /\ waits[k] * agent.retryBackoff.num < (waits[k + 1] + 1) * agent.retryBackoff.den
        /\ pc # "CallToolReturned" =>
              IF waits = <<>> THEN delay = agent.retryDelay
              ELSE /\ delay * agent.retryBackoff.den <= Last(waits) * agent.retryBackoff.num
                   /\ Last(waits) * agent.retryBackoff.num < (delay + 1) * agent.retryBackoff.den
        /\ OneWaitPerRetry

\* Two waits of 100 and 200 before the third attempt.
C35_Witness ==
    /\ pc = "CallToolReturned"
    /\ waits = <<100, 200>>
    /\ Len(execs) = 3
    /\ agent.retryDelay = 100

\* ---------------------------------------------------------------- C36
\* C36: a successful execution attempt ends the dispatch at once with its
\* ToolResultMessage: it is the last execution, and no wait or correction
\* follows it; so when the first attempt succeeds there is exactly one
\* execution, no wait and no correction round-trip, whatever maxRetries is.
C36_SuccessReturnsAtOnce ==
    (InDispatch /\ ToolPresent) =>
        \A k \in 1..Len(execs) :
            ToolRun(DispatchedTool, execs[k]).err = NoErr =>
                /\ k = Len(execs)
                /\ Len(waits) = k - 1
                /\ Len(corrs) = k - 1
                /\ toolRuns = k
                /\ pc = "CallToolReturned"
                /\ ctErr = NoErr
                /\ ctMsg = NewToolResultMessage(UpdateToolCallArgs(DispatchedCall, execs[k]),
                                                ToolRun(DispatchedTool, execs[k]).out)

\* The first attempt succeeded though retries were configured.
C36_Witness ==
    /\ pc = "CallToolReturned"
    /\ ctErr = NoErr
    /\ Len(execs) = 1 /\ waits = <<>> /\ corrs = <<>>
    /\ agent.maxRetries = 2
    /\ Kind(ctMsg) = "tool_result"

\* ------------------------------------------------- LLMResponse by hand
\* A caller builds a response with AddMessage and AddToolCall and reads
\* its tool calls.  ret is the LLMResponse with the slice the last
\* ToolCalls() returned; args is the last call made, with what ToolCalls()
\* gave before it and the tool calls added so far, in order.
MaxMessages == 3

ResponseCalls == {ToolCallRec(1, "calculator", Right), ToolCallRec(2, "weather", WrongSp)}
ResponseMessages ==
    {NewUserMessage("q"), AssistantMessage("a"), SystemMessage("s")}
    \cup {NewToolCallMessage(tc) : tc \in ResponseCalls}
    \cup {NewToolResultMessage(ToolCallRec(1, "calculator", Right), "success"),
          NewToolResultErrorMessage(ToolCallRec(2, "weather", WrongSp), ToolNotFound("weather")),
          NewToolErrorMessage(ToolCallRec(2, "weather", WrongSp), ToolNotFound("weather"))}

ResponseCall(op, m, tc, before, added) ==
    [op |-> op, message |-> m, toolCall |-> tc, before |-> before, added |-> added]

\* NewLLMResponse()
InitResponse ==
    /\ InitIdle
    /\ mem = NoMem
    /\ ret = [Messages |-> <<>>, toolCalls |-> <<>>]
    /\ args = ResponseCall("NewLLMResponse", NilMessage, NoToolCall, <<>>, <<>>)
    /\ pc = "Built"

\* r.AddMessage(message)
AddMessageCall ==
    /\ pc \in {"Built", "Read"}
    /\ Len(ret.Messages) < MaxMessages
    /\ \E m \in ResponseMessages :
          /\ ret' = [ret EXCEPT !.Messages = AddMessage(@, m)]
          /\ args' = ResponseCall("AddMessage", m, NoToolCall, ToolCalls(ret.Messages),
                                  IF m.type = "ToolCallMessage"
                                  THEN Append(args.added, m.ToolCall) ELSE args.added)
    /\ pc' = "Built"
    /\ UNCHANGED <<agent, runVars, mem>>

\* r.AddToolCall(functionCall)
AddToolCallCall ==
    /\ pc \in {"Built", "Read"}
    /\ Len(ret.Messages) < MaxMessages
    /\ \E tc \in ResponseCalls :
          /\ ret' = [ret EXCEPT !.Messages = AddToolCall(@, tc)]
          /\ args' = ResponseCall("AddToolCall", NilMessage, tc, ToolCalls(ret.Messages),
                                  Append(args.added, tc))
    /\ pc' = "Built"
    /\ UNCHANGED <<agent, runVars, mem>>

\* r.ToolCalls()
ToolCallsCall ==
    /\ pc = "Built"
    /\ ret' = [ret EXCEPT !.toolCalls = ToolCalls(ret.Messages)]
    /\ pc' = "Read"
    /\ UNCHANGED <<agent, runVars, mem, args>>

NextResponse ==
    \/ AddMessageCall
    \/ AddToolCallCall
    \/ ToolCallsCall

SpecResponse == InitResponse /\ [][NextResponse]_vars

\* ---------------------------------------------------------------- C37
\* The tool calls of the ToolCallMessages of a list, in the list's order.
CallsAmong(msgs) ==
    LET calls == SelectSeq(msgs, LAMBDA m : m.type = "ToolCallMessage")
    IN  [i \in 1..Len(calls) |-> calls[i].ToolCall]

\* C37: ToolCalls() is the subsequence of the response's tool-call
\* messages in their order, after any sequence of AddMessage and
\* AddToolCall: AddToolCall appends one element at its end, and AddMessage
\* of a text or tool-result message leaves it unchanged.
C37_ToolCallsAreTheCallMessages ==
    /\ pc = "Read" =>
          /\ ret.toolCalls = CallsAmong(ret.Messages)
          /\ ret.toolCalls = args.added
    /\ (pc = "Built" /\ args.op = "AddToolCall") =>
          ToolCalls(ret.Messages) = Append(args.before, args.toolCall)
    /\ (pc = "Built" /\ args.op = "AddMessage"
          /\ Kind(args.message) \in {"text", "tool_result"}) =>
          ToolCalls(ret.Messages) = args.before

\* Two different calls were added, one by each operation, with a tool
\* result between them, and ToolCalls() has been read.
C37_Witness ==
    /\ pc = "Read"
    /\ Len(ret.Messages) = 3
    /\ Len(ret.toolCalls) = 2
    /\ ret.toolCalls[1] # ret.toolCalls[2]
    /\ Kind(ret.Messages[2]) = "tool_result"
    /\ ret.Messages[2].type = "ToolErrorMessage"
    /\ args.op = "AddToolCall"

\* ------------------------------------------------- NewAgent's options
\* NewAgent(llm, tools, opts...) sets the defaults and applies the options
\* in order; the agent then dispatches one tool call.  args holds the
\* options passed and how many of them the loop has applied.
MaxOptions == 2

AgentOpt(field, value) == [field |-> field, value |-> value]
AgentOpts ==
    {AgentOpt("maxRetries", 5), AgentOpt("maxRetries", 0), AgentOpt("retryDelay", 50),
     AgentOpt("retryBackoff", Backoff(3, 2))}
AgentOptLists == UNION {[1..k -> AgentOpts] : k \in 0..MaxOptions}

\* opt(a)
ApplyAgentOpt(a, o) ==
    CASE o.field = "maxRetries" -> WithMaxRetries(a, o.value)
      [] o.field = "retryDelay" -> WithRetryDelay(a, o.value)
      [] o.field = "retryBackoff" -> WithRetryBackoff(a, o.value)

\* NewAgent has set the defaults; the model will emit one call of the tool.
InitOptions ==
    /\ InitCommon
    /\ \E t \in {AlwaysFailTool("test_tool"), StrictTool("test_tool", Right)} :
          agent = NewAgent(<<t>>)
    /\ llm = [corrections |-> OracleShort, isNil |-> FALSE]
    /\ NoWrapperRun
    /\ \E os \in AgentOptLists : args = [opts |-> os, applied |-> 0]
    /\ ret = NoArgs
    /\ mem = NoMem
    /\ callerRequest = NewLLMRequest(<<>>)
    /\ request = callerRequest
    /\ response = CallsOf(0, <<<<"test_tool", WrongSp>>>>)
    /\ toolCalls = ToolCalls(response)
    /\ idx = 1
    /\ emitted = response
    /\ used = 1
    /\ pc = "Building"

\* for _, opt := range opts { opt(a) }
ApplyOption ==
    /\ pc = "Building"
    /\ args.applied < Len(args.opts)
    /\ agent' = ApplyAgentOpt(agent, args.opts[args.applied + 1])
    /\ args' = [args EXCEPT !.applied = @ + 1]
    /\ UNCHANGED <<runVars, ret, mem, pc>>

\* return a; the agent is used.
NewAgentReturns ==
    /\ pc = "Building"
    /\ args.applied = Len(args.opts)
    /\ pc' = "Dispatching"
    /\ UNCHANGED <<agent, runVars, callVars>>

NextOptions ==
    \/ ApplyOption
    \/ NewAgentReturns
    \/ NextCallTool

SpecOptions == InitOptions /\ [][NextOptions]_vars

\* ---------------------------------------------------------------- C38
\* The value of the last option for a field among the first n passed, or
\* the default.
RECURSIVE Setting(_, _, _, _)
Setting(os, n, field, default) ==
    IF n = 0 THEN default
    ELSE IF os[n].field = field THEN os[n].value
    ELSE Setting(os, n - 1, field, default)

\* C38: without options NewAgent gives maxRetries 3, delay 100ms and
\* factor 2; each option replaces its own setting and leaves the other two
\* alone; an agent built with WithMaxRetries(5) makes at most 6 execution
\* attempts per tool call, a default agent at most 4.
C38_DefaultsAndOptions ==
    /\ agent.maxRetries = Setting(args.opts, args.applied, "maxRetries", 3)
    /\ agent.retryDelay = Setting(args.opts, args.applied, "retryDelay", 100)
    /\ agent.retryBackoff = Setting(args.opts, args.applied, "retryBackoff", Backoff(2, 1))
    /\ (args.opts = <<>>) =>
          /\ agent.maxRetries = 3 /\ agent.retryDelay = 100
          /\ agent.retryBackoff = Backoff(2, 1)
          /\ Len(execs) <= 4
    /\ (args.opts = <<AgentOpt("maxRetries", 5)>>) =>
          /\ (pc # "Building" => agent.maxRetries = 5)
          /\ agent.retryDelay = 100
          /\ agent.retryBackoff = Backoff(2, 1)
          /\ Len(execs) <= 6
    /\ InDispatch => Len(execs) <= Setting(args.opts, Len(args.opts), "maxRetries", 3) + 1

\* An agent built with WithMaxRetries(5) alone has run the tool six times.
C38_Witness ==
    /\ pc = "CallToolReturned"
    /\ args.opts = <<AgentOpt("maxRetries", 5)>>
    /\ Len(execs) = 6
    /\ waits = <<100, 200, 400, 800, 1600>>
    /\ IsRetryExhausted(ctErr)

\* ---------------------------------------------------------------- C39
\* C39: a backoff wait entered after the cancellation has fired takes the
\* cancellation, whatever the delay is, zero included: the dispatch
\* returns the cancellation error and the tool is not executed again.
C39_CancelledWaitNeverRuns ==
    /\ [][(pc = "Correcting" /\ cancelled /\ pc' = "Backoff") => sel' = "ctx"]_vars
    /\ [][(pc = "Backoff" /\ sel = "ctx") =>
              (pc' = "CallToolReturned" /\ ctErr' = Canceled /\ execs' = execs)]_vars

\* ---------------------------------------------------------------- C40
\* C40: whatever maxRetries is, zero and negative values included, a
\* dispatch of a tool of the toolbox that fails has executed the tool at
\* least once, and the error it reports carries the error of a tool
\* execution.
C40_FailureFollowsAnExecution ==
    (pc = "CallToolReturned" /\ ToolPresent /\ ctErr # NoErr /\ ctErr # Canceled) =>
        /\ Len(execs) >= 1
        /\ toolRuns >= 1
        /\ IsRetryExhausted(ctErr)
        /\ ctErr.cause # NoErr.kind
        /\ ctErr.cause = ToolRun(DispatchedTool, Last(execs)).err.kind

====
